---- MODULE Spec2Model ----
(***************************************************************************)
(* State-machine model of the bounded-resource workspace change-tracking   *)
(* engine of clode-studio:                                                 *)
(*   - LRUCache                 (electron/workspace-context-manager.ts,    *)
(*                               backup-working-fixes/RemoteClaudeHandler) *)
(*   - WorkspaceContextManager  (electron/workspace-context-manager.ts)    *)
(*   - LightweightContext       (electron/lightweight-context.js)          *)
(*                                                                         *)
(* Each component has its own specification (SpecCache, SpecPool,          *)
(* SpecIndex).  A specification changes the variables of its component and *)
(* leaves the variables of the other components at their initial values.   *)
(*                                                                         *)
(* Date.now() is a clock variable advanced by a Tick action; a call reads  *)
(* the clock where the code calls Date.now().  Times are counted in        *)
(* abstract clock units: the cache's maxAge is one unit, and a unit of the *)
(* manager's clock is one millisecond more than INSTANCE_TTL, so that      *)
(* expiry happens within the clock bounds.                                 *)
(***************************************************************************)
EXTENDS Integers, Sequences, FiniteSets, TLC

----------------------------------------------------------------------------
(* Bounds of the model                                                     *)

\* number of distinct cache keys the callers use
NumKeys == 3
\* largest maxSize a cache is constructed with
MaxCapacity == 2
\* last value of the cache's clock
MaxTime == 2
\* largest accessCount an entry reaches (calls that would exceed it are not made)
MaxAccess == 2
\* contexts constructed in a run that fills the pool
MaxContexts == 6
\* contexts constructed in a run with overlapping calls
OverlapContexts == 3
\* getOrCreateContext calls in flight at once
MaxCalls == 2
\* contexts constructed in a run that records the view of every call
ViewContexts == 2
\* contexts constructed on top of a full pool, by overlapping calls
OverflowContexts == 2
\* last value of the manager's clock
MaxClock == 1
\* number of files of the workspace directory
NumFiles == 2
\* debounce timer callbacks suspended at once
MaxBodies == 1
\* startWatching calls made by callers other than initialize, suspended at once
MaxStarts == 1
\* callbacks registered with onFileChange at once
MaxCallbacks == 1

\* roots of the FileWatcherService that fail, are refreshed and are unwatched
NumRoots == 3

\* roots that get EMFILE errors
NumEmfileRoots == 1

\* roots that are refreshed by hand
NumRefreshRoots == 1

\* retry timers of one root pending at a time
MaxPending == 3

\* EMFILE errors on one root in a run
MaxErrors == 4

\* roots that get file events of a native watcher
NumLiveRoots == 2

\* file events pending in the change queue at once
MaxQueue == 3

\* MAX_FILES of a new LightweightContext, scaled down from 300
ScaledMaxFiles == 3

\* MAX_FILES of a directory that holds several projects, scaled down from 200
ScaledReducedMaxFiles == 2

\* scanWorkspace calls in progress at once
MaxScans == 1

\* records in the cache searchFiles reads
MaxCachedFiles == 3

\* the largest limit a caller of searchFiles passes
MaxLimit == 3
\* listeners registered with onFileChange
MaxListeners == 3

\* the 50 records that emergencyCleanup keeps at most (lines 762 and 769), scaled
ScaledKeepLimit == 2

\* the 30 records that emergencyCleanup keeps whatever their name (line 771),
\* scaled
ScaledKeepAny == 1

Keys == 1..NumKeys

\* The values the callers of SpecCache store.  No branch of the cache reads a
\* value, so one value stands for all of them here.
Values == {1, 2}

\* `undefined`, the result of a get that misses
Absent == 0

----------------------------------------------------------------------------
(* Variables                                                               *)

VARIABLES
  \* -- LRUCache --
  cache,        \* Map key -> [value, timestamp, accessCount]
  accessOrder,  \* array of keys, least recently used first
  maxSize,      \* constructor argument
  now,          \* Date.now() of the cache's process
  ret,          \* the last call and what it returned
  recency       \* ghost: stored keys by their last successful get or set, oldest first

cacheVars == <<cache, accessOrder, maxSize, now, ret, recency>>

VARIABLES
  \* -- WorkspaceContextManager --
  instances,             \* Map path -> instance, as the array of its entries in insertion order
  currentWorkspacePath,  \* a path or Null
  cleanupInterval,       \* TRUE while the setInterval timer of the sweep is armed
  contexts,              \* the LightweightContext objects: id -> [init, destroyed,
                         \* expired], expired when fileCache holds an entry older
                         \* than MAX_CACHE_AGE
  created,               \* number of LightweightContext objects constructed so far
  calls,                 \* the getOrCreateContext calls suspended at an await
  fc,                    \* the forceCleanup call (or sweep callback) suspended at an await
  clock,                 \* Date.now() of the pool manager's process
  outcome,               \* "throw" when the last step made getOrCreateContext throw,
                         \* "shutdown" when it was shutdown(), "sweep" when the
                         \* interval timer's callback started, "cleanup" when a
                         \* direct forceCleanup() call started
  scope                  \* what the callers do in this run, one of Scopes

poolVars == <<instances, currentWorkspacePath, cleanupInterval, contexts, created,
              calls, fc, clock, outcome, scope>>

VARIABLES
  \* -- LightweightContext (one object) and the FileWatcherService it uses --
  isDestroyed,            \* this.isDestroyed
  workspacePath,          \* this.workspacePath: Null for '', or the workspace directory
  fileCache,              \* this.fileCache, as the set of its keys
  projectInfo,            \* this.projectInfo: Null or [files |-> the files analysed]
  watcherCallbacks,       \* this.watcherCallbacks, as the set of its callback ids
  fileWatcherCleanup,     \* TRUE when this.fileWatcherCleanup holds a function
  listeners,              \* 'file:change' listeners of this object on fileWatcherService
  scanDebounceTimer,      \* this.scanDebounceTimer: Null, a pending timer or a fired one
  memoryMonitorInterval,  \* TRUE when the setInterval timer of the monitor is armed
  init,                   \* the initialize call: where it is suspended, the scan's entries
  starts,                 \* startWatching calls suspended at `await watchDirectory`
  bodies,                 \* debounce timer callbacks suspended at an await
  last                    \* the last step: a cleanup call or not, what it found, whether
                          \* a watcher callback was called

indexVars == <<isDestroyed, workspacePath, fileCache, projectInfo, watcherCallbacks,
               fileWatcherCleanup, listeners, scanDebounceTimer, memoryMonitorInterval,
               init, starts, bodies, last>>

VARIABLES
  \* -- FileWatcherService --
  watchers,               \* this.watchers: the Map's entries [dir, handle] in insertion
                          \* order, handle "null" or "watcher"
  watcherCount,           \* this.watcherCount
  fileIndex,              \* this.fileIndex: root -> set of files
  emfileRetryAttempts,    \* this.emfileRetryAttempts: root -> count
  retryTimers,            \* pending setTimeout callbacks of handleEMFILEError: root -> number
  failedDirectories,      \* this.failedDirectories
  fallbackMode,           \* this.fallbackMode
  isWatchingDisabled,     \* this.isWatchingDisabled
  watchingStrategy,       \* this.watchingStrategy
  disk,                   \* the files each root holds on disk
  emitted,                \* the events the last step emitted, in order
  request,                \* the last step: [op, dir]
  emfileRun,              \* root -> EMFILE errors handled since a watch of the root was
                          \* last established
  requested,              \* the largest root a watch request has named
  changeQueue,            \* this.changeQueue: the Map's entries [dir, events] in
                          \* insertion order
  debounceTimeout         \* TRUE when the timer of processChangeQueueDebounced is pending

watchVars == <<watchers, watcherCount, fileIndex, emfileRetryAttempts, retryTimers,
               failedDirectories, fallbackMode, isWatchingDisabled, watchingStrategy,
               disk, emitted, request, emfileRun, requested, changeQueue, debounceTimeout>>

VARIABLES
  \* -- LightweightContext: its file cache under scans and change events --
  lruFileCache,           \* this.fileCache: the LRUCache object [cache, accessOrder]
  maxFiles,               \* this.MAX_FILES
  initialized,            \* TRUE once initialize has been called
  scans,                  \* the scanWorkspace calls in progress
  cacheProjectInfo        \* this.projectInfo: null or what analyzeProject returned

scanVars == <<lruFileCache, maxFiles, initialized, scans, cacheProjectInfo>>

VARIABLES
  \* -- LightweightContext.searchFiles --
  cachedFiles,            \* this.fileCache.values()
  query,                  \* the query of the last call
  limit,                  \* the limit of the last call
  results,                \* the array the last call returned
  searched                \* TRUE once searchFiles has been called

searchVars == <<cachedFiles, query, limit, results, searched>>

VARIABLES
  \* -- LightweightContext: its file-change listeners --
  callbackMap,            \* this.watcherCallbacks: the Map's entries [id, callable] in
                          \* insertion order
  callbackIdCounter,      \* this.callbackIdCounter
  listenersDestroyed,     \* this.isDestroyed
  thrown,                 \* ghost: the listeners that have thrown in a notification
  unsubscribed,           \* ghost: the listeners whose cleanup function was called
  notification            \* the last step: a notifyWatchers call or not, the listeners
                          \* it called in order, whether it threw

listenerVars == <<callbackMap, callbackIdCounter, listenersDestroyed, thrown,
                  unsubscribed, notification>>

\* LightweightContext.emergencyCleanup
VARIABLES
  fileEntries,            \* this.fileCache.cache: the Map's entries in insertion order,
                          \* each with the path of its record and whether it is expired
  entriesBefore,          \* ghost: fileEntries before the last emergencyCleanup
  cleanedUp               \* ghost: TRUE once emergencyCleanup has run

emergencyVars == <<fileEntries, entriesBefore, cleanedUp>>

vars == <<cacheVars, poolVars, indexVars, watchVars, scanVars, searchVars, listenerVars,
          emergencyVars>>

----------------------------------------------------------------------------
(* Sequence helpers                                                        *)

\* Array.prototype.indexOf: the first position of k in s, 0 when k is not in s
IndexOf(s, k) ==
  IF \E i \in 1..Len(s) : s[i] = k
  THEN CHOOSE i \in 1..Len(s) : s[i] = k /\ \A j \in 1..(i - 1) : s[j] # k
  ELSE 0

\* s.splice(i, 1) for a valid position i
RemoveAt(s, i) == SubSeq(s, 1, i - 1) \o SubSeq(s, i + 1, Len(s))

\* const index = s.indexOf(k); if (index > -1) s.splice(index, 1)
RemoveKey(s, k) == IF IndexOf(s, k) > 0 THEN RemoveAt(s, IndexOf(s, k)) ELSE s

SeqToSet(s) == {s[i] : i \in 1..Len(s)}

\* a function without the key k
Without(f, k) == [x \in (DOMAIN f) \ {k} |-> f[x]]

\* a function with the key k bound to e
With(f, k, e) == [x \in (DOMAIN f) \cup {k} |-> IF x = k THEN e ELSE f[x]]

----------------------------------------------------------------------------
(* LRUCache: the operations as functions of the cache object               *)
(* c = [cache |-> Map, accessOrder |-> array]                              *)

\* maxAge of the cache, in clock units
maxAge == 1

\* now - entry.timestamp > this.maxAge
Expired(e, t) == t - e.timestamp > maxAge

\* (mutant) delete leaves the key in accessOrder
LruDeleteKeepsOrder(c, k) ==
  IF k \in DOMAIN c.cache
  THEN [cache |-> Without(c.cache, k), accessOrder |-> c.accessOrder]
  ELSE c

\* delete(key)
LruDelete(c, k) ==
  IF k \in DOMAIN c.cache
  THEN [cache |-> Without(c.cache, k), accessOrder |-> RemoveKey(c.accessOrder, k)]
  ELSE c

\* the keys cleanupExpired collects
ExpiredKeys(c, t) == {k \in DOMAIN c.cache : Expired(c.cache[k], t)}

RECURSIVE DeleteAll(_, _)
DeleteAll(c, ks) ==
  IF ks = {} THEN c
  ELSE LET k == CHOOSE x \in ks : TRUE
       IN DeleteAll(LruDelete(c, k), ks \ {k})

\* cleanupExpired()
CleanupExpired(c, t) == DeleteAll(c, ExpiredKeys(c, t))

\* the while loop of evictLeastRecentlyUsed
RECURSIVE EvictLoop(_, _)
EvictLoop(c, cap) ==
  IF Cardinality(DOMAIN c.cache) >= cap /\ Len(c.accessOrder) > 0
  THEN EvictLoop([cache |-> IF Head(c.accessOrder) \in DOMAIN c.cache
                            THEN Without(c.cache, Head(c.accessOrder))
                            ELSE c.cache,
                  accessOrder |-> Tail(c.accessOrder)], cap)
  ELSE c

\* (mutant) the eviction loop stops one entry early: size > maxSize instead of >=
RECURSIVE EvictLoopLate(_, _)
EvictLoopLate(c, cap) ==
  IF Cardinality(DOMAIN c.cache) > cap /\ Len(c.accessOrder) > 0
  THEN EvictLoopLate([cache |-> IF Head(c.accessOrder) \in DOMAIN c.cache
                                THEN Without(c.cache, Head(c.accessOrder))
                                ELSE c.cache,
                      accessOrder |-> Tail(c.accessOrder)], cap)
  ELSE c

EvictLeastRecentlyUsedLate(c, t, cap) == EvictLoopLate(CleanupExpired(c, t), cap)

\* (mutant) the eviction does not remove the expired entries first
EvictWithoutCleanup(c, t, cap) == EvictLoop(c, cap)

\* evictLeastRecentlyUsed()
EvictLeastRecentlyUsed(c, t, cap) == EvictLoop(CleanupExpired(c, t), cap)

\* (mutant) a hit that does not move the key to the end of accessOrder
LruGetNoRefresh(c, k, t) ==
  IF k \notin DOMAIN c.cache THEN c
  ELSE IF Expired(c.cache[k], t) THEN LruDelete(c, k)
  ELSE [cache |-> [c.cache EXCEPT ![k].accessCount = @ + 1, ![k].timestamp = t],
        accessOrder |-> c.accessOrder]

\* (mutant) a hit that leaves the timestamp of the entry as it is
LruGetKeepsTimestamp(c, k, t) ==
  IF k \notin DOMAIN c.cache THEN c
  ELSE IF Expired(c.cache[k], t) THEN LruDelete(c, k)
  ELSE [cache |-> [c.cache EXCEPT ![k].accessCount = @ + 1],
        accessOrder |-> Append(RemoveKey(c.accessOrder, k), k)]

\* get(key): the cache object afterwards
LruGet(c, k, t) ==
  IF k \notin DOMAIN c.cache THEN c
  ELSE IF Expired(c.cache[k], t) THEN LruDelete(c, k)
  ELSE [cache |-> [c.cache EXCEPT ![k].accessCount = @ + 1, ![k].timestamp = t],
        accessOrder |-> Append(RemoveKey(c.accessOrder, k), k)]

\* get(key): the value returned
LruGetResult(c, k, t) ==
  IF k \notin DOMAIN c.cache THEN Absent
  ELSE IF Expired(c.cache[k], t) THEN Absent
  ELSE c.cache[k].value

\* (mutant) set checks the capacity before it looks for the key
LruSetEvictsFirst(c, k, v, t, cap) ==
  LET d == IF Cardinality(DOMAIN c.cache) >= cap
           THEN EvictLeastRecentlyUsed(c, t, cap)
           ELSE c
  IN IF k \in DOMAIN d.cache
     THEN [cache |-> [d.cache EXCEPT ![k].value = v, ![k].timestamp = t,
                                     ![k].accessCount = @ + 1],
           accessOrder |-> Append(RemoveKey(d.accessOrder, k), k)]
     ELSE [cache |-> With(d.cache, k, [value |-> v, timestamp |-> t, accessCount |-> 1]),
           accessOrder |-> Append(d.accessOrder, k)]

\* set(key, value)
LruSet(c, k, v, t, cap) ==
  IF k \in DOMAIN c.cache
  THEN [cache |-> [c.cache EXCEPT ![k].value = v, ![k].timestamp = t,
                                  ![k].accessCount = @ + 1],
        accessOrder |-> Append(RemoveKey(c.accessOrder, k), k)]
  ELSE LET d == IF Cardinality(DOMAIN c.cache) >= cap
                THEN EvictLeastRecentlyUsed(c, t, cap)
                ELSE c
       IN [cache |-> With(d.cache, k, [value |-> v, timestamp |-> t, accessCount |-> 1]),
           accessOrder |-> Append(d.accessOrder, k)]

\* (mutant) has reports an expired entry absent and leaves it in the Map
LruHasKeepsExpired(c, k, t) == c

\* has(key): the cache object afterwards
LruHas(c, k, t) ==
  IF k \notin DOMAIN c.cache THEN c
  ELSE IF Expired(c.cache[k], t) THEN LruDelete(c, k)
  ELSE c

\* has(key): the value returned
LruHasResult(c, k, t) ==
  IF k \notin DOMAIN c.cache THEN FALSE
  ELSE IF Expired(c.cache[k], t) THEN FALSE
  ELSE TRUE

\* clear()
LruClear(c) == [cache |-> <<>>, accessOrder |-> <<>>]

\* forceCleanup(): the cache object afterwards (it returns the number removed)
LruForceCleanup(c, t) == CleanupExpired(c, t)

\* the readers that take no key: size(), keys(), values(), entries(), getStats()
Readers == {"size", "keys", "values", "entries", "getStats"}

\* what a reader returns, as a number: cache.size for size(), the length of the
\* array for keys(), values() and entries(), expiredEntries for getStats()
ReadResult(c, op, t) ==
  IF op = "getStats"
  THEN Cardinality(ExpiredKeys(c, t))
  ELSE Cardinality(DOMAIN c.cache)

----------------------------------------------------------------------------
(* The LRUCache component: one cache driven by arbitrary callers            *)

Obj == [cache |-> cache, accessOrder |-> accessOrder]

\* ghost bookkeeping: the stored keys in the order of their last successful get or set
RECURSIVE Restrict(_, _)
Restrict(s, S) ==
  IF s = <<>> THEN <<>>
  ELSE IF Head(s) \in S THEN <<Head(s)>> \o Restrict(Tail(s), S)
  ELSE Restrict(Tail(s), S)

Touch(s, k) == Append(Restrict(s, SeqToSet(s) \ {k}), k)

\* the record of a call: operation, key, returned value, keys it removed
Call(op, k, val, before, after) ==
  [op |-> op, key |-> k, val |-> val, removed |-> (DOMAIN before) \ (DOMAIN after)]

CacheInit ==
  /\ cache = <<>>
  /\ accessOrder = <<>>
  /\ maxSize \in 1..MaxCapacity
  /\ now = 0
  /\ ret = [op |-> "new", key |-> 0, val |-> 0, removed |-> {}]
  /\ recency = <<>>

Commit(c) ==
  /\ cache' = c.cache
  /\ accessOrder' = c.accessOrder

Get(k) ==
  /\ k \in DOMAIN cache => cache[k].accessCount < MaxAccess
  /\ LET c == LruGet(Obj, k, now)
         r == LruGetResult(Obj, k, now)
     IN /\ Commit(c)
        /\ ret' = Call("get", k, r, cache, c.cache)
        /\ recency' = IF r # Absent
                      THEN Touch(Restrict(recency, DOMAIN c.cache), k)
                      ELSE Restrict(recency, DOMAIN c.cache)
  /\ UNCHANGED <<maxSize, now, poolVars, indexVars, watchVars, scanVars, searchVars, listenerVars, emergencyVars>>

Set(k, v) ==
  /\ k \in DOMAIN cache => cache[k].accessCount < MaxAccess
  /\ LET c == LruSet(Obj, k, v, now, maxSize)
     IN /\ Commit(c)
        /\ ret' = Call("set", k, v, cache, c.cache)
        /\ recency' = Touch(Restrict(recency, DOMAIN c.cache), k)
  /\ UNCHANGED <<maxSize, now, poolVars, indexVars, watchVars, scanVars, searchVars, listenerVars, emergencyVars>>

Delete(k) ==
  /\ LET c == LruDelete(Obj, k)
     IN /\ Commit(c)
        /\ ret' = Call("delete", k, IF k \in DOMAIN cache THEN 1 ELSE 0, cache, c.cache)
        /\ recency' = Restrict(recency, DOMAIN c.cache)
  /\ UNCHANGED <<maxSize, now, poolVars, indexVars, watchVars, scanVars, searchVars, listenerVars, emergencyVars>>

Has(k) ==
  /\ LET c == LruHas(Obj, k, now)
     IN /\ Commit(c)
        /\ ret' = Call("has", k, IF LruHasResult(Obj, k, now) THEN 1 ELSE 0, cache, c.cache)
        /\ recency' = Restrict(recency, DOMAIN c.cache)
  /\ UNCHANGED <<maxSize, now, poolVars, indexVars, watchVars, scanVars, searchVars, listenerVars, emergencyVars>>

Clear ==
  /\ LET c == LruClear(Obj)
     IN /\ Commit(c)
        /\ ret' = Call("clear", 0, 0, cache, c.cache)
        /\ recency' = Restrict(recency, DOMAIN c.cache)
  /\ UNCHANGED <<maxSize, now, poolVars, indexVars, watchVars, scanVars, searchVars, listenerVars, emergencyVars>>

ForceCleanup ==
  /\ LET c == LruForceCleanup(Obj, now)
     IN /\ Commit(c)
        /\ ret' = Call("forceCleanup", 0,
                       Cardinality(DOMAIN cache) - Cardinality(DOMAIN c.cache),
                       cache, c.cache)
        /\ recency' = Restrict(recency, DOMAIN c.cache)
  /\ UNCHANGED <<maxSize, now, poolVars, indexVars, watchVars, scanVars, searchVars, listenerVars, emergencyVars>>

\* size(), keys(), values(), entries(), getStats(): no statement of them assigns
\* to the Map, to an entry or to accessOrder
Read(op) ==
  /\ ret' = [op |-> op, key |-> 0, val |-> ReadResult(Obj, op, now), removed |-> {}]
  /\ UNCHANGED <<cache, accessOrder, maxSize, now, recency, poolVars, indexVars, watchVars, scanVars, searchVars, listenerVars, emergencyVars>>

\* time passes between two calls
Tick ==
  /\ now < MaxTime
  /\ now' = now + 1
  /\ ret' = [op |-> "tick", key |-> 0, val |-> 0, removed |-> {}]
  /\ UNCHANGED <<cache, accessOrder, maxSize, recency, poolVars, indexVars, watchVars, scanVars, searchVars, listenerVars, emergencyVars>>

CacheNext ==
  \/ \E k \in Keys : Get(k)
  \/ \E k \in Keys, v \in Values : Set(k, v)
  \/ \E k \in Keys : Delete(k)
  \/ \E k \in Keys : Has(k)
  \/ Clear
  \/ ForceCleanup
  \/ \E op \in Readers : Read(op)
  \/ Tick

----------------------------------------------------------------------------
(* Claims about the Bounded Cache (checked under SpecCache)                *)

\* C1: for maxSize >= 1, after every operation of any sequence of
\* set/get/has/delete/clear/forceCleanup calls, with any passage of time, the
\* number of stored entries is at most maxSize.
C1_SizeAtMostMaxSize == Cardinality(DOMAIN cache) <= maxSize

\* a set has just evicted an entry and the cache is full
C1_Witness ==
  /\ ret.op = "set"
  /\ ret.removed # {}
  /\ Cardinality(DOMAIN cache) = maxSize

\* C2: when set(k, v) inserts a new key into a cache that is at capacity and
\* holds no expired entry, exactly one key is removed, and it is the key whose
\* last successful get or set is the oldest.
C2_EvictsExactlyLRU ==
  [][\A k \in Keys :
        ( /\ k \notin DOMAIN cache
          /\ k \in DOMAIN cache'
          /\ Cardinality(DOMAIN cache) >= maxSize
          /\ ExpiredKeys(Obj, now) = {} )
        => (DOMAIN cache) \ (DOMAIN cache') = {Head(recency)}]_vars

\* maxSize = 2: set 1, set 2, get 1, set 3 has removed key 2 and left {1, 3}
C2_Witness ==
  /\ maxSize = 2
  /\ now = 0
  /\ ret.op = "set" /\ ret.key = 3 /\ ret.removed = {2}
  /\ accessOrder = <<1, 3>>
  /\ cache[1].accessCount = 2

\* C3: once now - timestamp > maxAge, get(k) returns absent and has(k) returns
\* false although the key was never deleted, and that call removes the entry
\* from the Map behind size/keys/values/entries.
C3_ExpiredAbsentAndRemoved ==
  [][( /\ ret'.op \in {"get", "has"}
       /\ ret'.key \in DOMAIN cache
       /\ Expired(cache[ret'.key], now) )
     => ( /\ ret'.val = Absent
          /\ ret'.key \notin DOMAIN cache' )]_vars

\* a get has found its entry expired: it returned absent and removed the entry
C3_Witness ==
  /\ ret.op = "get"
  /\ ret.val = Absent
  /\ ret.removed = {ret.key}

\* C28: set(k, v) on a key that is present, also in a cache at capacity, removes
\* no entry and leaves the size as it is, replaces the value of k, leaves every
\* other entry as it is and makes k the most recently used key.
C28_SetOnPresentKeyUpdatesInPlace ==
  [][(ret'.op = "set" /\ ret'.key \in DOMAIN cache)
       => /\ DOMAIN cache' = DOMAIN cache
          /\ cache'[ret'.key].value = ret'.val
          /\ \A j \in DOMAIN cache \ {ret'.key} : cache'[j] = cache[j]
          /\ accessOrder'[Len(accessOrder')] = ret'.key
          /\ recency'[Len(recency')] = ret'.key
          /\ Restrict(accessOrder', DOMAIN cache \ {ret'.key})
               = Restrict(accessOrder, DOMAIN cache \ {ret'.key})]_vars

\* a set has just replaced the value of the least recently used key of a full
\* cache of two entries: the key is now the most recently used one
C28_Witness ==
  /\ ret.op = "set"
  /\ ret.val = 2
  /\ maxSize = 2
  /\ Cardinality(DOMAIN cache) = 2
  /\ cache[ret.key].accessCount = 2
  /\ accessOrder = <<2, 1>>
  /\ ret.key = 1
  /\ cache[2].accessCount = 1

\* C32: when set(k, v) inserts a new key into a cache that is at capacity, every
\* expired entry is removed first and the least recently used entry is evicted
\* only if the cache is still at capacity after that: if at least one entry is
\* expired at the time of the call, the entries removed are exactly the expired
\* ones and no unexpired entry is removed.
C32_ExpiredPurgedBeforeEviction ==
  [][( /\ ret'.op = "set"
       /\ ret'.key \notin DOMAIN cache
       /\ Cardinality(DOMAIN cache) >= maxSize )
     => ( /\ ExpiredKeys(Obj, now) \subseteq ret'.removed
          /\ (ret'.removed \ ExpiredKeys(Obj, now) # {}
                => Cardinality((DOMAIN cache) \ ExpiredKeys(Obj, now)) >= maxSize)
          /\ (ExpiredKeys(Obj, now) # {} => ret'.removed = ExpiredKeys(Obj, now)) )]_vars

\* a set into a full cache of two entries has removed both: the eviction loop
\* removes one entry of such a cache, so both were expired and removed as such
C32_Witness ==
  /\ ret.op = "set"
  /\ maxSize = 2
  /\ Cardinality(ret.removed) = 2
  /\ DOMAIN cache = {ret.key}

\* C34: after any sequence of get/set/delete/has/clear/forceCleanup calls,
\* lazy expiry and eviction included, accessOrder holds each stored key exactly
\* once and no key that is not stored.
C34_AccessOrderListsStoredKeysOnce ==
  /\ SeqToSet(accessOrder) = DOMAIN cache
  /\ Len(accessOrder) = Cardinality(DOMAIN cache)

\* a has has just removed an expired entry of a cache that still holds another
\* entry, which a get or a second set had moved in accessOrder
C34_Witness ==
  /\ ret.op = "has"
  /\ ret.removed = {ret.key}
  /\ \E k \in DOMAIN cache : cache[k].accessCount = 2

\* what the entries that are not expired at time t look like: their fields and
\* their order in accessOrder
UnexpiredView(c, t) ==
  LET live == (DOMAIN c.cache) \ ExpiredKeys(c, t)
  IN [entries |-> [k \in live |-> c.cache[k]], order |-> Restrict(c.accessOrder, live)]

\* C35: a successful get(k) sets the timestamp of the entry to the time of the
\* call, and get(k) and has(k) find an entry whose timestamp is at most maxAge
\* old; has(k) and the readers size/keys/values/entries/getStats leave the
\* timestamp, the access count and the place in accessOrder of every unexpired
\* entry as they are.
C35_GetRefreshesReadersDoNot ==
  [][/\ (ret'.op = "get" /\ ret'.val # Absent)
          => /\ ret'.key \in DOMAIN cache'
             /\ cache'[ret'.key].timestamp = now
             /\ ~Expired(cache'[ret'.key], now + maxAge)
     /\ (ret'.op \in {"get", "has"} /\ ret'.key \in DOMAIN cache
           /\ now - cache[ret'.key].timestamp <= maxAge)
          => (ret'.val # Absent /\ ret'.key \in DOMAIN cache')
     /\ (ret'.op \in Readers \cup {"has"})
          => UnexpiredView([cache |-> cache', accessOrder |-> accessOrder'], now)
               = UnexpiredView(Obj, now)]_vars

\* at time 2 a has finds an entry whose timestamp is 1 and that has been
\* accessed twice, while the least recently used entry of the cache is expired
C35_Witness ==
  /\ ret.op = "has"
  /\ ret.val = 1
  /\ now = 2
  /\ cache[ret.key].timestamp = 1
  /\ cache[ret.key].accessCount = 2
  /\ Len(accessOrder) = 2
  /\ Expired(cache[accessOrder[1]], now)

----------------------------------------------------------------------------
(* WorkspaceContextManager                                                 *)
(*                                                                         *)
(* An async method runs without interruption up to an await; what follows  *)
(* the await is a later step, and other calls may run in between.          *)
(* createdAt is left out: only getStats reads it.  A LightweightContext is *)
(* seen here through the two facts the manager depends on: how its         *)
(* initialize ended and whether cleanup() has destroyed it.                *)

Paths == 1..MaxContexts

\* null
Null == 0

\* MAX_INSTANCES
MAX_INSTANCES == 5

\* INSTANCE_TTL = 30 * 60 * 1000, in milliseconds
INSTANCE_TTL == 1800000

\* the milliseconds of one unit of the manager's clock
ClockUnit == INSTANCE_TTL + 1

\* The paths the callers pass: a normalized path, or the same path with a
\* trailing slash.
RawPaths == [base : Paths, slash : BOOLEAN]

\* normalizePath(path): the trailing slashes are removed
NormalizePath(raw) == raw.base

\* this.instances.has(path)
HasInstance(I, p) == \E i \in 1..Len(I) : I[i].workspacePath = p

\* the position of path's entry in the Map
InstancePos(I, p) == CHOOSE i \in 1..Len(I) : I[i].workspacePath = p

\* this.instances.get(path)
GetInstance(I, p) == I[InstancePos(I, p)]

\* this.instances.set(path, instance): an existing key keeps its position
SetInstance(I, inst) ==
  IF HasInstance(I, inst.workspacePath)
  THEN [I EXCEPT ![InstancePos(I, inst.workspacePath)] = inst]
  ELSE Append(I, inst)

\* this.instances.delete(path)
DeleteInstance(I, p) ==
  IF HasInstance(I, p) THEN RemoveAt(I, InstancePos(I, p)) ELSE I

\* the keys of this.instances
PathsOf(I) == {I[i].workspacePath : i \in 1..Len(I)}

\* (mutant) the previous workspace's instance keeps its isActive flag
DeactivateNone(I, cur) == I

\* prevInstance.isActive = false, when the current workspace has an instance
DeactivateCurrent(I, cur) ==
  IF cur # Null /\ HasInstance(I, cur)
  THEN [I EXCEPT ![InstancePos(I, cur)].isActive = FALSE]
  ELSE I

\* A LightweightContext object is named by its workspace path and a number
\* that tells apart the objects constructed for one path: [path, gen].
\* The objects the model keeps are those an instance of the Map or a suspended
\* call refers to, and those that were let go without cleanup().
NoContexts == <<>>

\* context.cleanup() of the context named id
Destroy(C, id) == [C EXCEPT ![id].destroyed = TRUE, ![id].expired = FALSE]

\* context.forceCleanup() of the context named id: nothing on a destroyed
\* context, otherwise fileCache.forceCleanup() deletes the expired entries
ContextForceCleanup(C, id) ==
  IF C[id].destroyed THEN C ELSE [C EXCEPT ![id].expired = FALSE]

\* the sweep callback's loop over this.instances.values()
RECURSIVE CleanupCaches(_, _)
CleanupCaches(C, I) ==
  IF I = <<>> THEN C
  ELSE CleanupCaches(ContextForceCleanup(C, Head(I).context), Tail(I))

\* what follows the return of forceCleanup(): the sweep callback's loop, or
\* nothing when forceCleanup() was called directly
AfterForceCleanup(C, I, sweep) == IF sweep THEN CleanupCaches(C, I) ELSE C

\* MAX_CACHE_AGE has passed: the entries that the scan of a context with a
\* completed initialize has cached are now expired
AgeCaches(C) ==
  [id \in DOMAIN C |->
     IF C[id].init = "ok" /\ ~C[id].destroyed THEN [C[id] EXCEPT !.expired = TRUE]
     ELSE C[id]]

\* new LightweightContext() for path p: the smallest number not in use for p
NewContextId(C, p) ==
  [path |-> p,
   gen |-> CHOOSE g \in 0..Cardinality(DOMAIN C) :
             /\ [path |-> p, gen |-> g] \notin DOMAIN C
             /\ \A h \in 0..(g - 1) : [path |-> p, gen |-> h] \in DOMAIN C]

\* the contexts an instance of I or a call of K refers to
Referenced(I, K) ==
  {I[i].context : i \in 1..Len(I)} \cup {c.inst.context : c \in K}

\* the model forgets a context once nothing refers to it and it is destroyed or
\* its initialize has failed
Forget(C, I, K) ==
  [id \in {x \in DOMAIN C : x \in Referenced(I, K)
                            \/ (~C[x].destroyed /\ C[x].init # "failed")} |-> C[id]]

\* The loops of evictOldestInactiveInstance: from position i on, the path of
\* the first entry with the least lastAccessed below oldestTime among the
\* entries the loop considers; Null when there is none.
RECURSIVE OldestFrom(_, _, _, _, _, _)
OldestFrom(I, i, inactiveOnly, cur, oldestTime, oldestPath) ==
  IF i > Len(I) THEN oldestPath
  ELSE IF /\ (IF inactiveOnly THEN ~I[i].isActive ELSE I[i].workspacePath # cur)
          /\ I[i].lastAccessed < oldestTime
       THEN OldestFrom(I, i + 1, inactiveOnly, cur, I[i].lastAccessed, I[i].workspacePath)
       ELSE OldestFrom(I, i + 1, inactiveOnly, cur, oldestTime, oldestPath)

\* evictOldestInactiveInstance(): the path it closes, Null when it closes none
EvictChoice(I, cur, t) ==
  IF OldestFrom(I, 1, TRUE, cur, t, Null) # Null
  THEN OldestFrom(I, 1, TRUE, cur, t, Null)
  ELSE OldestFrom(I, 1, FALSE, cur, t, Null)

\* forceCleanup(): instancesToRemove, in the order of the Map
RECURSIVE InstancesToRemove(_, _)
InstancesToRemove(I, t) ==
  IF I = <<>> THEN <<>>
  ELSE (IF ~Head(I).isActive /\ (t - Head(I).lastAccessed) * ClockUnit > INSTANCE_TTL
        THEN <<Head(I).workspacePath>> ELSE <<>>)
       \o InstancesToRemove(Tail(I), t)

\* closeWorkspace(path): the manager's Map, current path and contexts afterwards
CloseEffect(I, cur, C, p) ==
  IF HasInstance(I, p)
  THEN [instances |-> DeleteInstance(I, p),
        current |-> IF cur = p THEN Null ELSE cur,
        contexts |-> Destroy(C, GetInstance(I, p).context)]
  ELSE [instances |-> I, current |-> cur, contexts |-> C]

\* a catch block that rethrows without instances.delete
RollbackEffectKeepsInstance(I, cur, p) ==
  [instances |-> I,
   current |-> IF cur = p THEN Null ELSE cur]

\* the catch block of getOrCreateContext: the Map and current path afterwards
RollbackEffect(I, cur, p) ==
  [instances |-> DeleteInstance(I, p),
   current |-> IF cur = p THEN Null ELSE cur]

\* getOrCreateContext from "Deactivate previous workspace" to the call of
\* initialize: the Map afterwards
RegisterEffect(I, cur, inst) == SetInstance(DeactivateCurrent(I, cur), inst)

\* ActivePaths: the paths of the instances whose isActive is set
ActivePaths(I) == {I[i].workspacePath : i \in {j \in 1..Len(I) : I[j].isActive}}

\* ghost bookkeeping: what a caller of getOrCreateContext sees of the pool when
\* it makes the call: the instances, the active ones and the current path
PoolView ==
  [paths |-> PathsOf(instances), active |-> ActivePaths(instances),
   current |-> currentWorkspacePath]

\* ghost bookkeeping: the view a call of getOrCreateContext records, kept in
\* the runs that record it
ViewAtCall ==
  IF scope.views THEN PoolView
  ELSE [paths |-> {}, active |-> {}, current |-> Null]

\* Paths are interchangeable, so the callers name them in order: path p is named
\* only after p - 1 contexts have been constructed.
MayName(p) == p <= created + 1

IdleFc == [pc |-> "idle", todo |-> <<>>, cleaned |-> 0, closed |-> 0, sweep |-> FALSE]

\* 1 when closeWorkspace(p) finds an instance to close, 0 otherwise
Closes(I, p) == IF HasInstance(I, p) THEN 1 ELSE 0

\* The runs explored.  In one, the callers open workspaces one call at a time
\* until the pool is full and beyond, and close none themselves; in the other,
\* they make overlapping calls on a few workspaces and close them as well; in
\* the last, they open a few workspaces one call at a time and every call
\* records the view it had of the pool.
Scopes ==
  {[contexts |-> MaxContexts, calls |-> 1, closes |-> FALSE, views |-> FALSE],
   [contexts |-> OverlapContexts, calls |-> MaxCalls, closes |-> TRUE, views |-> FALSE],
   [contexts |-> ViewContexts, calls |-> 1, closes |-> FALSE, views |-> TRUE]}

PoolInit ==
  /\ scope \in Scopes
  /\ instances = <<>>
  /\ currentWorkspacePath = Null
  /\ cleanupInterval = TRUE
  /\ contexts = NoContexts
  /\ created = 0
  /\ calls = {}
  /\ fc = IdleFc
  /\ clock = 0
  /\ outcome = "none"

\* getOrCreateContext(raw) when the path has an instance: lines 34-49
GetExisting(raw) ==
  LET p == NormalizePath(raw) IN
  /\ MayName(p)
  /\ HasInstance(instances, p)
  /\ LET I1 == [instances EXCEPT ![InstancePos(instances, p)].lastAccessed = clock,
                                 ![InstancePos(instances, p)].isActive = TRUE]
     IN instances' = IF currentWorkspacePath # p
                     THEN DeactivateCurrent(I1, currentWorkspacePath)
                     ELSE I1
  /\ currentWorkspacePath' = p
  /\ outcome' = "none"
  /\ UNCHANGED <<cleanupInterval, contexts, created, calls, fc, clock, scope, cacheVars, indexVars, watchVars, scanVars, searchVars, listenerVars, emergencyVars>>

\* getOrCreateContext(raw) when the path has no instance, up to its first await:
\* lines 51-65 and, when the pool is not full, lines 67-81
GetNew(raw) ==
  LET p == NormalizePath(raw)
      id == NewContextId(contexts, p)
      inst == [workspacePath |-> p, lastAccessed |-> clock, isActive |-> TRUE,
               context |-> id]
      C1 == With(contexts, id, [init |-> "new", destroyed |-> FALSE, expired |-> FALSE])
  IN
  /\ MayName(p)
  /\ ~HasInstance(instances, p)
  /\ created < scope.contexts
  /\ Cardinality(calls) < scope.calls
  /\ created' = created + 1
  /\ IF Len(instances) >= MAX_INSTANCES
     THEN LET victim == EvictChoice(instances, currentWorkspacePath, clock)
              e == IF victim # Null
                   THEN CloseEffect(instances, currentWorkspacePath, C1, victim)
                   ELSE [instances |-> instances, current |-> currentWorkspacePath,
                         contexts |-> C1]
              K == calls \cup {[pc |-> "evict", inst |-> inst, before |-> ViewAtCall]}
          IN /\ instances' = e.instances
             /\ currentWorkspacePath' = e.current
             /\ calls' = K
             /\ contexts' = Forget(e.contexts, e.instances, K)
             /\ outcome' = "none"
     ELSE /\ instances' = RegisterEffect(instances, currentWorkspacePath, inst)
          /\ currentWorkspacePath' = p
          /\ calls' = calls \cup {[pc |-> "init", inst |-> inst, before |-> ViewAtCall]}
          /\ contexts' = Forget([C1 EXCEPT ![id].init = "running"], instances', calls')
          /\ outcome' = "none"
  /\ UNCHANGED <<cleanupInterval, fc, clock, scope, cacheVars, indexVars, watchVars, scanVars, searchVars, listenerVars, emergencyVars>>

\* getOrCreateContext after `await this.evictOldestInactiveInstance()`: lines 67-81
ResumeAfterEvict(c) ==
  /\ c.pc = "evict"
  /\ instances' = RegisterEffect(instances, currentWorkspacePath, c.inst)
  /\ currentWorkspacePath' = c.inst.workspacePath
  /\ calls' = (calls \ {c}) \cup {[c EXCEPT !.pc = "init"]}
  /\ contexts' = Forget([contexts EXCEPT ![c.inst.context].init = "running"],
                        instances', calls')
  /\ outcome' = "none"
  /\ UNCHANGED <<cleanupInterval, created, fc, clock, scope, cacheVars, indexVars, watchVars, scanVars, searchVars, listenerVars, emergencyVars>>

\* getOrCreateContext after `await context.initialize(...)` resolved: line 91
InitResolved(c) ==
  /\ c.pc = "init"
  /\ calls' = calls \ {c}
  /\ contexts' = Forget([contexts EXCEPT ![c.inst.context].init = "ok"],
                        instances, calls')
  /\ outcome' = "none"
  /\ UNCHANGED <<instances, currentWorkspacePath, cleanupInterval, created, fc, clock,
                 scope, cacheVars, indexVars, watchVars, scanVars, searchVars, listenerVars, emergencyVars>>

\* getOrCreateContext after `await context.initialize(...)` rejected: lines 82-89
InitRejected(c) ==
  /\ c.pc = "init"
  /\ LET r == RollbackEffect(instances, currentWorkspacePath, c.inst.workspacePath)
     IN /\ instances' = r.instances
        /\ currentWorkspacePath' = r.current
  /\ calls' = calls \ {c}
  /\ contexts' = Forget([contexts EXCEPT ![c.inst.context].init = "failed"],
                        instances', calls')
  /\ outcome' = "throw"
  /\ UNCHANGED <<cleanupInterval, created, fc, clock, scope, cacheVars, indexVars, watchVars, scanVars, searchVars, listenerVars, emergencyVars>>

\* closeWorkspace(raw): lines 123-139
CloseWorkspace(raw) ==
  LET p == NormalizePath(raw)
      e == CloseEffect(instances, currentWorkspacePath, contexts, p)
  IN
  /\ MayName(p)
  /\ scope.closes
  /\ instances' = e.instances
  /\ currentWorkspacePath' = e.current
  /\ contexts' = Forget(e.contexts, e.instances, calls)
  /\ outcome' = "none"
  /\ UNCHANGED <<cleanupInterval, created, calls, fc, clock, scope, cacheVars, indexVars, watchVars, scanVars, searchVars, listenerVars, emergencyVars>>

\* a loop that calls no cleanup()
DestroyNone(C, I) == C

\* every context of the Map destroyed
RECURSIVE DestroyAll(_, _)
DestroyAll(C, I) ==
  IF I = <<>> THEN C ELSE DestroyAll(Destroy(C, Head(I).context), Tail(I))

\* closeAllWorkspaces(): lines 144-151
CloseAllWorkspaces ==
  /\ scope.closes
  /\ contexts' = Forget(DestroyAll(contexts, instances), <<>>, calls)
  /\ instances' = <<>>
  /\ currentWorkspacePath' = Null
  /\ outcome' = "none"
  /\ UNCHANGED <<cleanupInterval, created, calls, fc, clock, scope, cacheVars, indexVars, watchVars, scanVars, searchVars, listenerVars, emergencyVars>>

\* shutdown(): lines 219-228
Shutdown ==
  /\ scope.closes
  /\ cleanupInterval' = FALSE
  /\ contexts' = Forget(DestroyAll(contexts, instances), <<>>, calls)
  /\ instances' = <<>>
  /\ currentWorkspacePath' = Null
  /\ outcome' = "shutdown"
  /\ UNCHANGED <<created, calls, fc, clock, scope, cacheVars, indexVars, watchVars, scanVars, searchVars, listenerVars, emergencyVars>>

\* forceCleanup() up to its first await (lines 195-209), or to its return when
\* instancesToRemove is empty; sweep = TRUE when the interval timer's callback
\* makes the call (lines 263-265) and goes through the remaining contexts
\* after the return (lines 267-272).
ForceCleanupStart(sweep) ==
  LET todo == InstancesToRemove(instances, clock) IN
  /\ fc.pc = "idle"
  /\ sweep => cleanupInterval
  /\ IF todo = <<>>
     THEN /\ contexts' = AfterForceCleanup(contexts, instances, sweep)
          /\ UNCHANGED <<instances, currentWorkspacePath, fc>>
     ELSE LET e == CloseEffect(instances, currentWorkspacePath, contexts, Head(todo))
          IN /\ instances' = e.instances
             /\ currentWorkspacePath' = e.current
             /\ contexts' = Forget(e.contexts, e.instances, calls)
             /\ fc' = [pc |-> "loop", todo |-> Tail(todo), cleaned |-> 0,
                       closed |-> Closes(instances, Head(todo)), sweep |-> sweep]
  /\ outcome' = IF sweep THEN "sweep" ELSE "cleanup"
  /\ UNCHANGED <<cleanupInterval, created, calls, clock, scope, cacheVars, indexVars, watchVars, scanVars, searchVars, listenerVars, emergencyVars>>

\* forceCleanup() after `await this.closeWorkspace(path)`: cleaned++, then the
\* next closeWorkspace, or the return of cleaned, which is fc.cleaned + 1
\* (lines 208-213)
ForceCleanupStep ==
  /\ fc.pc = "loop"
  /\ IF fc.todo = <<>>
     THEN /\ fc' = IdleFc
          /\ contexts' = AfterForceCleanup(contexts, instances, fc.sweep)
          /\ UNCHANGED <<instances, currentWorkspacePath>>
     ELSE LET e == CloseEffect(instances, currentWorkspacePath, contexts, Head(fc.todo))
          IN /\ instances' = e.instances
             /\ currentWorkspacePath' = e.current
             /\ contexts' = Forget(e.contexts, e.instances, calls)
             /\ fc' = [fc EXCEPT !.todo = Tail(@), !.cleaned = @ + 1,
                                  !.closed = @ + Closes(instances, Head(fc.todo))]
  /\ outcome' = "none"
  /\ UNCHANGED <<cleanupInterval, created, calls, clock, scope, cacheVars, indexVars, watchVars, scanVars, searchVars, listenerVars, emergencyVars>>

\* time passes: more than INSTANCE_TTL, which is also MAX_CACHE_AGE
\* (lightweight-context.js line 21)
PoolTick ==
  /\ clock < MaxClock
  /\ clock' = clock + 1
  /\ contexts' = AgeCaches(contexts)
  /\ outcome' = "none"
  /\ UNCHANGED <<instances, currentWorkspacePath, cleanupInterval, created,
                 calls, fc, scope, cacheVars, indexVars, watchVars, scanVars, searchVars, listenerVars, emergencyVars>>

PoolNext ==
  \/ \E raw \in RawPaths : GetExisting(raw)
  \/ \E raw \in RawPaths : GetNew(raw)
  \/ \E c \in calls : ResumeAfterEvict(c)
  \/ \E c \in calls : InitResolved(c)
  \/ \E c \in calls : InitRejected(c)
  \/ \E raw \in RawPaths : CloseWorkspace(raw)
  \/ CloseAllWorkspaces
  \/ Shutdown
  \/ \E sweep \in BOOLEAN : ForceCleanupStart(sweep)
  \/ ForceCleanupStep
  \/ PoolTick

\* A pool that holds MAX_INSTANCES workspaces, opened one after the other by
\* getOrCreateContext calls that have all returned: the last one is the current
\* and active one.  From here the callers make overlapping getOrCreateContext
\* calls.
FullPoolScope ==
  [contexts |-> MAX_INSTANCES + OverflowContexts, calls |-> MaxCalls,
   closes |-> FALSE, views |-> FALSE]

FullPoolInit ==
  /\ scope = FullPoolScope
  /\ instances = [p \in 1..MAX_INSTANCES |->
                    [workspacePath |-> p, lastAccessed |-> 0,
                     isActive |-> (p = MAX_INSTANCES),
                     context |-> [path |-> p, gen |-> 0]]]
  /\ currentWorkspacePath = MAX_INSTANCES
  /\ cleanupInterval = TRUE
  /\ contexts = [id \in {[path |-> p, gen |-> 0] : p \in 1..MAX_INSTANCES} |->
                   [init |-> "ok", destroyed |-> FALSE, expired |-> FALSE]]
  /\ created = MAX_INSTANCES
  /\ calls = {}
  /\ fc = IdleFc
  /\ clock = 0
  /\ outcome = "none"

FullPoolNext ==
  \/ \E raw \in RawPaths : GetExisting(raw)
  \/ \E raw \in RawPaths : GetNew(raw)
  \/ \E c \in calls : ResumeAfterEvict(c)
  \/ \E c \in calls : InitResolved(c)
  \/ \E c \in calls : InitRejected(c)
  \/ PoolTick

----------------------------------------------------------------------------
(* Properties of the pool manager                                          *)

\* the step is the capacity eviction of a getOrCreateContext call
EvictionStep == \E c \in calls' \ calls : c.pc = "evict"

\* the step is a closeWorkspace made by forceCleanup or by the sweep
CleanupStep == (fc.pc = "idle" /\ fc'.pc = "loop") \/ (fc.pc = "loop" /\ fc'.todo # fc.todo)

\* the paths a step removes from the Map
Removed == PathsOf(instances) \ PathsOf(instances')

\* the positions of the instances with the smallest lastAccessed among S
Oldest(S) == {i \in S : \A j \in S : instances[i].lastAccessed <= instances[j].lastAccessed}

\* the positions capacity eviction is to choose from: the inactive instances if
\* there is one, otherwise the instances other than the current workspace's
EvictionCandidates ==
  LET inactive == {i \in 1..Len(instances) : ~instances[i].isActive} IN
  IF inactive # {} THEN inactive
  ELSE {i \in 1..Len(instances) : instances[i].workspacePath # currentWorkspacePath}

\* C4: the pool never holds more than MAX_INSTANCES (5) instances, under any
\* sequence and interleaving of getOrCreateContext, closeWorkspace,
\* forceCleanup and the sweep.
C4_AtMostMaxInstances == Len(instances) <= MAX_INSTANCES

\* C5: an instance whose isActive flag is true is never removed by capacity
\* eviction, by forceCleanup or by the sweep.
C5_ActiveNeverCleanedUp ==
  [][(EvictionStep \/ CleanupStep)
       => \A i \in 1..Len(instances) :
            instances[i].isActive => instances[i].workspacePath \notin Removed]_vars

\* C6: a getOrCreateContext for a path not in the pool, made when the pool
\* holds MAX_INSTANCES instances, evicts exactly one instance: the least
\* recently accessed inactive one if there is an inactive one, otherwise the
\* least recently accessed one other than the current workspace's.
C6_EvictsExactlyOneOldest ==
  [][(EvictionStep /\ Len(instances) = MAX_INSTANCES)
       => \E i \in Oldest(EvictionCandidates) :
            Removed = {instances[i].workspacePath}]_vars

\* C7: when initialize fails, getOrCreateContext removes the instance and
\* throws; the pool never contains an instance whose initialize has failed.
C7_NoFailedInstanceInPool ==
  \A i \in 1..Len(instances) : contexts[instances[i].context].init # "failed"

\* getOrCreateContext has just thrown while other workspaces are in the pool
C7_Witness == outcome = "throw" /\ instances # <<>>

\* C27: a getOrCreateContext(path) that fails because initialize throws leaves
\* no partial state: the pool holds the instances it held when the call was
\* made, the same instance is active and the current workspace path is the
\* same.  Stated for runs in which the callers make one call at a time, so
\* that no other getOrCreateContext runs between the call and its failure.
C27_FailedCreateRestoresPool ==
  [][\A c \in calls \ calls' :
        (scope.views /\ outcome' = "throw") => PoolView' = c.before]_vars

\* C36: in every reachable state of the pool manager at most one instance has
\* isActive set, and an instance that has it is the one registered under
\* currentWorkspacePath; so no instance is active when currentWorkspacePath is
\* null or names a path that has no instance.
C36_OnlyCurrentIsActive ==
  /\ Cardinality({i \in 1..Len(instances) : instances[i].isActive}) <= 1
  /\ \A i \in 1..Len(instances) :
       instances[i].isActive => instances[i].workspacePath = currentWorkspacePath

\* the callers have switched back to the workspace opened first while a
\* getOrCreateContext for another workspace is suspended: the first instance
\* is current and the only active one
C36_Witness ==
  /\ Len(instances) >= 3
  /\ calls # {}
  /\ instances[1].workspacePath = currentWorkspacePath
  /\ ActivePaths(instances) = {currentWorkspacePath}
  /\ \A c \in calls : c.inst.workspacePath # currentWorkspacePath

\* C37: when a getOrCreateContext call for a path that has no instance is
\* suspended before it has registered its instance, and a second call for the
\* same path registers one in the meantime, at most one LightweightContext of
\* that path stays alive: once the first call registers its instance, the
\* context the second call had registered is destroyed.
C37_OverlappingCreateLeavesOneIndex ==
  [][\A c \in calls \ calls' :
        ( /\ c.pc = "evict"
          /\ HasInstance(instances, c.inst.workspacePath) )
        => LET other == GetInstance(instances, c.inst.workspacePath).context
           IN other \in DOMAIN contexts' => contexts'[other].destroyed]_vars

\* the step is the return of a getOrCreateContext call that found an instance
\* (lines 34-49): the pool holds the same paths, no call was suspended or
\* resumed, and the current workspace's instance is active
ReturnsExisting ==
  /\ calls' = calls
  /\ contexts' = contexts
  /\ fc' = fc
  /\ clock' = clock
  /\ outcome' = "none"
  /\ PathsOf(instances') = PathsOf(instances)
  /\ <<instances', currentWorkspacePath'>> # <<instances, currentWorkspacePath>>
  /\ HasInstance(instances', currentWorkspacePath')

\* C38: the LightweightContext a getOrCreateContext call returns has completed
\* initialize and is not destroyed when it is returned, whether the call found
\* an instance or created one, and whatever ran while it awaited initialize.
C38_ReturnedIndexIsReady ==
  [][/\ \A c \in calls \ calls' :
          (c.pc = "init" /\ outcome' # "throw") => ~contexts[c.inst.context].destroyed
     /\ ReturnsExisting
          => LET x == GetInstance(instances', currentWorkspacePath').context
             IN contexts'[x].init = "ok" /\ ~contexts'[x].destroyed]_vars

IdleExpired(i) ==
  /\ ~instances[i].isActive
  /\ (clock - instances[i].lastAccessed) * ClockUnit > INSTANCE_TTL

\* the path the closeWorkspace of a cleanup step is called with
CleanupPath ==
  IF fc.pc = "idle" THEN Head(InstancesToRemove(instances, clock)) ELSE Head(fc.todo)

\* the step is the return of a forceCleanup that closed at least one path
CleanupReturn == fc.pc = "loop" /\ fc.todo = <<>> /\ fc'.pc = "idle"

\* C13: forceCleanup() and each sweep remove exactly the instances that are
\* inactive and idle for longer than the 30 minute TTL, destroy each of them,
\* return their count, and leave every other instance in the pool.
C13_CleanupRemovesExactlyIdle ==
  [][/\ CleanupStep
          => \E i \in 1..Len(instances) :
               /\ instances[i].workspacePath = CleanupPath
               /\ IdleExpired(i)
               /\ Removed = {CleanupPath}
               /\ instances[i].context \in DOMAIN contexts'
                    => contexts'[instances[i].context].destroyed
     /\ CleanupReturn => fc.cleaned + 1 = fc.closed]_vars

\* the step ends a forceCleanup() call or a run of the sweep callback
CleanupEnds ==
  \/ CleanupReturn
  \/ fc.pc = "idle" /\ fc'.pc = "idle" /\ outcome' \in {"sweep", "cleanup"}

\* C14: when forceCleanup() or a run of the periodic sweep ends, the cache
\* cleanup of every instance remaining in the pool has been invoked, so that
\* no remaining instance's cache holds an entry older than its TTL.
C14_RemainingCachesCleaned ==
  [][CleanupEnds
       => \A i \in 1..Len(instances') : ~contexts'[instances'[i].context].expired]_vars

----------------------------------------------------------------------------
(* LightweightContext                                                      *)
(*                                                                         *)
(* One object and the 'file:change' listeners it has on fileWatcherService.*)
(* fileCache is seen through the set of its keys; its entries do not       *)
(* expire within a run and MAX_FILES is not reached.  watchDirectory of    *)
(* the service emits 'directory:skipped' and returns (main.js 3748-3752),  *)
(* so the service keeps no watcher and unwatchDirectory finds none; its    *)
(* 'file:change' events come from manualRefresh (main.js 4378-4439).       *)

Files == 1..NumFiles

\* the directory passed to initialize, and another directory of the service
Workspace == 1
Directories == {Workspace, 2}

\* the event types handleFileSystemEvent tells apart
EventTypes == {"add", "unlink", "change"}

\* MAX_FILES
MAX_FILES == 300

\* this.scanDebounceTimer: null, the handle of a timer that is armed, or the
\* handle of a timer that has fired (the callback does not reset the field)
NoTimer == [state |-> "null", type |-> "", file |-> 0]
PendingTimer(type, f) == [state |-> "pending", type |-> type, file |-> f]
FiredTimer == [state |-> "fired", type |-> "", file |-> 0]

\* this.projectInfo: null, or analyzeProject(files)
NoInfo == [null |-> TRUE, files |-> {}]
AnalyzeProject(files) == [null |-> FALSE, files |-> files]

\* projectInfo of persistedData
PersistedInfo == AnalyzeProject({})

\* the initialize call
InitAt(pc, todo, files) == [pc |-> pc, todo |-> todo, files |-> files]

\* a step that is no cleanup call
OtherStep(notified) == [op |-> "other", again |-> FALSE, notified |-> notified]

\* notifyWatchers(): TRUE when it calls a callback
NotifyWatchers == ~isDestroyed /\ watcherCallbacks # {}

IndexInit ==
  /\ isDestroyed = FALSE
  /\ workspacePath = Null
  /\ fileCache = {}
  /\ projectInfo = NoInfo
  /\ watcherCallbacks = {}
  /\ fileWatcherCleanup = FALSE
  /\ listeners = 0
  /\ scanDebounceTimer = NoTimer
  /\ memoryMonitorInterval = FALSE
  /\ init = InitAt("idle", {}, {})
  /\ starts = 0
  /\ bodies = {}
  /\ last = [op |-> "new", again |-> FALSE, notified |-> FALSE]

\* the body of stopWatching(): lines 568-583
StopWatchingBody ==
  /\ fileWatcherCleanup' = FALSE
  /\ listeners' = IF fileWatcherCleanup THEN listeners - 1 ELSE listeners
  /\ scanDebounceTimer' = NoTimer

\* stopWatching() called from outside (main.js 2806-2813)
StopWatching ==
  /\ StopWatchingBody
  /\ last' = OtherStep(FALSE)
  /\ UNCHANGED <<isDestroyed, workspacePath, fileCache, projectInfo, watcherCallbacks,
                 memoryMonitorInterval, init, starts, bodies, cacheVars, poolVars, watchVars, scanVars, searchVars, listenerVars, emergencyVars>>

\* initialize(workspacePath) up to `await this.validateWorkspacePath`: lines
\* 135-145; exists is the result of existsSync
Initialize(exists) ==
  /\ init.pc = "idle"
  /\ IF isDestroyed
     THEN /\ init' = InitAt("failed", {}, {})
          /\ UNCHANGED <<fileWatcherCleanup, listeners, scanDebounceTimer>>
     ELSE /\ StopWatchingBody
          /\ init' = InitAt(IF exists THEN "validate" ELSE "failed", {}, {})
  /\ last' = OtherStep(FALSE)
  /\ UNCHANGED <<isDestroyed, workspacePath, fileCache, projectInfo, watcherCallbacks,
                 memoryMonitorInterval, starts, bodies, cacheVars, poolVars, watchVars, scanVars, searchVars, listenerVars, emergencyVars>>

\* initialize after validateWorkspacePath, up to the await of
\* loadWorkspaceContext: lines 146-150
InitValidated ==
  /\ init.pc = "validate"
  /\ workspacePath' = Workspace
  /\ init' = InitAt("load", {}, {})
  /\ last' = OtherStep(FALSE)
  /\ UNCHANGED <<isDestroyed, fileCache, projectInfo, watcherCallbacks,
                 fileWatcherCleanup, listeners, scanDebounceTimer,
                 memoryMonitorInterval, starts, bodies, cacheVars, poolVars, watchVars, scanVars, searchVars, listenerVars, emergencyVars>>

\* initialize after loadWorkspaceContext (lines 151-155), then scanWorkspace and
\* scanDirectory up to `await readdir` (lines 168-197).  On a destroyed object
\* scanWorkspace returns at once, and initialize goes on to the await of line
\* 159 when projectInfo is set, or else to its end, where startWatching and
\* startMemoryMonitor return at once.
InitLoaded(persisted) ==
  /\ init.pc = "load"
  /\ projectInfo' = IF persisted THEN PersistedInfo ELSE projectInfo
  /\ IF isDestroyed
     THEN /\ init' = InitAt(IF projectInfo'.null THEN "done" ELSE "persist", {}, {})
          /\ UNCHANGED fileCache
     ELSE /\ fileCache' = {}
          /\ init' = InitAt("readdir", {}, {})
  /\ last' = OtherStep(FALSE)
  /\ UNCHANGED <<isDestroyed, workspacePath, watcherCallbacks, fileWatcherCleanup,
                 listeners, scanDebounceTimer, memoryMonitorInterval, starts, bodies,
                 cacheVars, poolVars, watchVars, scanVars, searchVars, listenerVars, emergencyVars>>

\* scanDirectory after `await readdir`: the batch of entries, each one awaiting
\* its stat (lines 198-205).  With no entry, or on a destroyed object, the loop
\* ends, scanDirectory returns no file and scanWorkspace sets projectInfo
\* (lines 173-175); initialize then awaits updateProjectInfo (line 159).
ScanListed(entries) ==
  /\ init.pc = "readdir"
  /\ IF isDestroyed \/ entries = {}
     THEN /\ projectInfo' = AnalyzeProject({})
          /\ init' = InitAt("persist", {}, {})
     ELSE /\ init' = InitAt("batch", entries, {})
          /\ UNCHANGED projectInfo
  /\ last' = OtherStep(FALSE)
  /\ UNCHANGED <<isDestroyed, workspacePath, fileCache, watcherCallbacks,
                 fileWatcherCleanup, listeners, scanDebounceTimer,
                 memoryMonitorInterval, starts, bodies, cacheVars, poolVars, watchVars, scanVars, searchVars, listenerVars, emergencyVars>>

\* one entry of the batch after `await stat`: lines 205-232; isFile is FALSE for
\* an entry the scan skips
ScanEntry(f, isFile) ==
  /\ init.pc = "batch"
  /\ f \in init.todo
  /\ IF isFile /\ Cardinality(fileCache) < MAX_FILES
     THEN /\ fileCache' = fileCache \cup {f}
          /\ init' = InitAt("batch", init.todo \ {f}, init.files \cup {f})
     ELSE /\ init' = InitAt("batch", init.todo \ {f}, init.files)
          /\ UNCHANGED fileCache
  /\ last' = OtherStep(FALSE)
  /\ UNCHANGED <<isDestroyed, workspacePath, projectInfo, watcherCallbacks,
                 fileWatcherCleanup, listeners, scanDebounceTimer,
                 memoryMonitorInterval, starts, bodies, cacheVars, poolVars, watchVars, scanVars, searchVars, listenerVars, emergencyVars>>

\* after `await Promise.all(batchPromises)`: scanDirectory returns the files and
\* scanWorkspace sets projectInfo (lines 241-256, 173-177); initialize then
\* awaits updateProjectInfo (lines 158-160)
ScanReturn ==
  /\ init.pc = "batch"
  /\ init.todo = {}
  /\ projectInfo' = AnalyzeProject(init.files)
  /\ init' = InitAt("persist", {}, {})
  /\ last' = OtherStep(FALSE)
  /\ UNCHANGED <<isDestroyed, workspacePath, fileCache, watcherCallbacks,
                 fileWatcherCleanup, listeners, scanDebounceTimer,
                 memoryMonitorInterval, starts, bodies, cacheVars, poolVars, watchVars, scanVars, searchVars, listenerVars, emergencyVars>>

\* startWatching() up to `await fileWatcherService.watchDirectory`: TRUE when
\* the call gets there (lines 532-543)
StartWatchingGoesOn == workspacePath # Null /\ ~isDestroyed

\* initialize after the await of line 159: startWatching() up to its await and
\* startMemoryMonitor() (lines 161-166, 718-748)
InitTail ==
  /\ init.pc = "persist"
  /\ starts' = IF StartWatchingGoesOn THEN starts + 1 ELSE starts
  /\ memoryMonitorInterval' = IF isDestroyed THEN memoryMonitorInterval ELSE TRUE
  /\ init' = InitAt("done", {}, {})
  /\ last' = OtherStep(FALSE)
  /\ UNCHANGED <<isDestroyed, workspacePath, fileCache, projectInfo, watcherCallbacks,
                 fileWatcherCleanup, listeners, scanDebounceTimer, bodies,
                 cacheVars, poolVars, watchVars, scanVars, searchVars, listenerVars, emergencyVars>>

\* startWatching() called from outside (main.js 2790-2797), up to its await
StartWatching ==
  /\ starts < MaxStarts
  /\ starts' = IF StartWatchingGoesOn THEN starts + 1 ELSE starts
  /\ last' = OtherStep(FALSE)
  /\ UNCHANGED <<isDestroyed, workspacePath, fileCache, projectInfo, watcherCallbacks,
                 fileWatcherCleanup, listeners, scanDebounceTimer,
                 memoryMonitorInterval, init, bodies, cacheVars, poolVars, watchVars, scanVars, searchVars, listenerVars, emergencyVars>>

\* startWatching() after `await fileWatcherService.watchDirectory`: the old
\* listener is removed, the new one registered (lines 544-561)
StartWatchingResume ==
  /\ starts > 0
  /\ starts' = starts - 1
  /\ listeners' = (IF fileWatcherCleanup THEN listeners - 1 ELSE listeners) + 1
  /\ fileWatcherCleanup' = TRUE
  /\ last' = OtherStep(FALSE)
  /\ UNCHANGED <<isDestroyed, workspacePath, fileCache, projectInfo, watcherCallbacks,
                 scanDebounceTimer, memoryMonitorInterval, init, bodies,
                 cacheVars, poolVars, watchVars, scanVars, searchVars, listenerVars, emergencyVars>>

\* fileWatcherService emits 'file:change' for a file of directory dir; the
\* listener calls handleFileSystemEvent for its own directory (lines 545-549,
\* 584-616 up to setTimeout)
FileChange(dir, type, f) ==
  /\ listeners > 0
  /\ scanDebounceTimer' = IF dir = workspacePath THEN PendingTimer(type, f)
                          ELSE scanDebounceTimer
  /\ last' = OtherStep(FALSE)
  /\ UNCHANGED <<isDestroyed, workspacePath, fileCache, projectInfo, watcherCallbacks,
                 fileWatcherCleanup, listeners, memoryMonitorInterval, init, starts,
                 bodies, cacheVars, poolVars, watchVars, scanVars, searchVars, listenerVars, emergencyVars>>

\* a debounce callback suspended at an await
BodyAt(type, f, pc) == [type |-> type, file |-> f, pc |-> pc]

\* the debounce timer fires: its callback up to the first await (lines 589-615).
\* 'add' and a 'change' of a cached file await stat; 'unlink' and a 'change' of
\* a file not cached run to updateProjectInfo (lines 657-660).
DebounceFires ==
  LET type == scanDebounceTimer.type
      f == scanDebounceTimer.file
  IN
  /\ scanDebounceTimer.state = "pending"
  /\ Cardinality(bodies) < MaxBodies
  /\ scanDebounceTimer' = FiredTimer
  /\ IF type = "add" \/ (type = "change" /\ f \in fileCache)
     THEN /\ bodies' = bodies \cup {BodyAt(type, f, "stat")}
          /\ last' = OtherStep(FALSE)
          /\ UNCHANGED <<fileCache, projectInfo>>
     ELSE /\ fileCache' = IF type = "unlink" THEN fileCache \ {f} ELSE fileCache
          /\ projectInfo' = AnalyzeProject(fileCache')
          /\ last' = OtherStep(type = "unlink" /\ NotifyWatchers)
          /\ UNCHANGED bodies
  /\ UNCHANGED <<isDestroyed, workspacePath, watcherCallbacks, fileWatcherCleanup,
                 listeners, memoryMonitorInterval, init, starts, cacheVars, poolVars, watchVars, scanVars, searchVars, listenerVars, emergencyVars>>

\* addFileToCache / updateFileInCache after `await stat` (lines 617-656); isFile
\* is FALSE when stat fails or the file is skipped
BodyAfterStat(b, isFile) ==
  /\ b \in bodies
  /\ b.pc = "stat"
  /\ fileCache' = IF b.type = "add" /\ isFile THEN fileCache \cup {b.file} ELSE fileCache
  /\ bodies' = (bodies \ {b}) \cup {BodyAt(b.type, b.file, "notify")}
  /\ last' = OtherStep(FALSE)
  /\ UNCHANGED <<isDestroyed, workspacePath, projectInfo, watcherCallbacks,
                 fileWatcherCleanup, listeners, scanDebounceTimer,
                 memoryMonitorInterval, init, starts, cacheVars, poolVars, watchVars, scanVars, searchVars, listenerVars, emergencyVars>>

\* the debounce callback after `await this.addFileToCache` or `await
\* this.updateFileInCache`: notifyWatchers, updateProjectInfo (lines 594-609)
BodyNotify(b) ==
  /\ b \in bodies
  /\ b.pc = "notify"
  /\ projectInfo' = AnalyzeProject(fileCache)
  /\ bodies' = bodies \ {b}
  /\ last' = OtherStep(NotifyWatchers)
  /\ UNCHANGED <<isDestroyed, workspacePath, fileCache, watcherCallbacks,
                 fileWatcherCleanup, listeners, scanDebounceTimer,
                 memoryMonitorInterval, init, starts, cacheVars, poolVars, watchVars, scanVars, searchVars, listenerVars, emergencyVars>>

\* the callback of the memory monitor's interval timer (lines 723-747); high
\* is TRUE when heapUsed exceeds MEMORY_THRESHOLD, and emergencyCleanup (lines
\* 755-789) then clears the debounce timer
MonitorTick(high) ==
  /\ memoryMonitorInterval
  /\ IF isDestroyed
     THEN /\ memoryMonitorInterval' = FALSE
          /\ UNCHANGED scanDebounceTimer
     ELSE /\ scanDebounceTimer' = IF high THEN NoTimer ELSE scanDebounceTimer
          /\ UNCHANGED memoryMonitorInterval
  /\ last' = OtherStep(FALSE)
  /\ UNCHANGED <<isDestroyed, workspacePath, fileCache, projectInfo, watcherCallbacks,
                 fileWatcherCleanup, listeners, init, starts, bodies,
                 cacheVars, poolVars, watchVars, scanVars, searchVars, listenerVars, emergencyVars>>

\* onFileChange(callback): lines 662-669
OnFileChange ==
  /\ Cardinality(watcherCallbacks) < MaxCallbacks
  /\ watcherCallbacks' = watcherCallbacks \cup
       {CHOOSE id \in 1..MaxCallbacks : id \notin watcherCallbacks}
  /\ last' = OtherStep(FALSE)
  /\ UNCHANGED <<isDestroyed, workspacePath, fileCache, projectInfo,
                 fileWatcherCleanup, listeners, scanDebounceTimer,
                 memoryMonitorInterval, init, starts, bodies, cacheVars, poolVars, watchVars, scanVars, searchVars, listenerVars, emergencyVars>>

\* the function onFileChange returned, called (lines 666-668)
RemoveCallback(id) ==
  /\ id \in watcherCallbacks
  /\ watcherCallbacks' = watcherCallbacks \ {id}
  /\ last' = OtherStep(FALSE)
  /\ UNCHANGED <<isDestroyed, workspacePath, fileCache, projectInfo,
                 fileWatcherCleanup, listeners, scanDebounceTimer,
                 memoryMonitorInterval, init, starts, bodies, cacheVars, poolVars, watchVars, scanVars, searchVars, listenerVars, emergencyVars>>

\* a cleanup that goes on when the object is destroyed already
CleanupNeverReturnsEarly == FALSE

\* cleanup(): `if (this.isDestroyed) return;` (lines 792-793)
CleanupReturnsEarly == isDestroyed

\* cleanup(): lines 791-806
Cleanup ==
  /\ last' = [op |-> "cleanup", again |-> isDestroyed, notified |-> FALSE]
  /\ IF CleanupReturnsEarly
     THEN UNCHANGED <<isDestroyed, fileWatcherCleanup, listeners, scanDebounceTimer,
                      memoryMonitorInterval, fileCache, projectInfo, watcherCallbacks>>
     ELSE /\ isDestroyed' = TRUE
          /\ StopWatchingBody
          /\ memoryMonitorInterval' = FALSE
          /\ fileCache' = {}
          /\ projectInfo' = NoInfo
          /\ watcherCallbacks' = {}
  /\ UNCHANGED <<workspacePath, init, starts, bodies, cacheVars, poolVars, watchVars, scanVars, searchVars, listenerVars, emergencyVars>>

\* getMemoryStats().timersActive: line 879
TimersActive ==
  (IF scanDebounceTimer.state # "null" THEN 1 ELSE 0)
    + (IF memoryMonitorInterval THEN 1 ELSE 0)

IndexNext ==
  \/ \E exists \in BOOLEAN : Initialize(exists)
  \/ InitValidated
  \/ \E persisted \in BOOLEAN : InitLoaded(persisted)
  \/ \E entries \in SUBSET Files : ScanListed(entries)
  \/ \E f \in Files, isFile \in BOOLEAN : ScanEntry(f, isFile)
  \/ ScanReturn
  \/ InitTail
  \/ StartWatching
  \/ StartWatchingResume
  \/ StopWatching
  \/ \E dir \in Directories, type \in EventTypes, f \in Files : FileChange(dir, type, f)
  \/ DebounceFires
  \/ \E b \in bodies, isFile \in BOOLEAN : BodyAfterStat(b, isFile)
  \/ \E b \in bodies : BodyNotify(b)
  \/ \E high \in BOOLEAN : MonitorTick(high)
  \/ OnFileChange
  \/ \E id \in 1..MaxCallbacks : RemoveCallback(id)
  \/ Cleanup

----------------------------------------------------------------------------
(* Properties of the LightweightContext                                    *)

\* the fields of the object and the listeners it has on the service
indexState == <<isDestroyed, workspacePath, fileCache, projectInfo, watcherCallbacks,
                fileWatcherCleanup, listeners, scanDebounceTimer,
                memoryMonitorInterval>>

\* C8: once cleanup() has returned there is no pending debounce timer, no
\* memory-monitor timer and no subscription to the Watch Service, also when
\* cleanup() runs while startWatching awaits the service or change events
\* arrive afterwards.
C8_NothingArmedAfterCleanup ==
  isDestroyed => /\ scanDebounceTimer.state # "pending"
                 /\ ~memoryMonitorInterval
                 /\ listeners = 0

\* C9: after cleanup() no late callback (a debounce body awaiting stat, a scan
\* batch in flight, a monitor tick) changes the cache or the ProjectInfo or
\* calls a listener: the cache stays empty and the ProjectInfo null.
C9_NoLateMutation ==
  isDestroyed => /\ fileCache = {}
                 /\ projectInfo = NoInfo
                 /\ ~last.notified

\* C10: cleanup() is idempotent: a call on a destroyed object changes nothing.
C10_CleanupIdempotent ==
  [][(last'.op = "cleanup" /\ last'.again)
       => UNCHANGED <<indexState, init, starts, bodies>>]_vars

\* cleanup() has just been called on a destroyed object whose cache a late scan
\* entry had filled again
C10_Witness == last.op = "cleanup" /\ last.again /\ isDestroyed /\ fileCache # {}

\* the step is a call of initialize
InitializeCalled == init.pc = "idle" /\ init'.pc # "idle"

\* the step registers a watcher callback
CallbackRegistered == watcherCallbacks' \ watcherCallbacks # {}

\* C11: a public operation called on a destroyed object returns an inert
\* result, does not throw and does not change the object: initialize does not
\* throw and onFileChange registers nothing.
C11_InertWhenDestroyed ==
  [][isDestroyed => /\ ~CallbackRegistered
                    /\ (InitializeCalled => init'.pc # "failed")]_vars

\* C22: every change notification delivered for the object's root while it is
\* not destroyed is applied to the cache and reported to the listeners, also
\* when notifications for several distinct paths arrive within one debounce
\* window: a notification that arrives while another one waits for the debounce
\* does not discard the one that waits, unless both are about the same path.
C22_NoNotificationDiscarded ==
  [][(/\ ~isDestroyed
      /\ scanDebounceTimer.state = "pending"
      /\ scanDebounceTimer'.state = "pending")
       => scanDebounceTimer'.file = scanDebounceTimer.file]_vars

\* the timers of the object that are armed: the debounce timer until it fires or
\* is cleared, the interval timer of the memory monitor until it is cleared
TimersPending ==
  (IF scanDebounceTimer.state = "pending" THEN 1 ELSE 0)
    + (IF memoryMonitorInterval THEN 1 ELSE 0)

\* C30: the number of active timers getMemoryStats reports is the number of the
\* object's timers (debounce, memory monitor) that are pending; the debounce
\* timer is not counted once it has fired or has been cancelled.
C30_TimersActiveArePending == TimersActive = TimersPending

----------------------------------------------------------------------------
(* LightweightContext: the file cache under scans and change events        *)
(*                                                                         *)
(* this.fileCache is an LRUCache (lines 5, 131-134); its operations are    *)
(* the operators of the LRUCache above, and its entries do not expire      *)
(* within a run (the clock stays at 0).  The capacities are scaled: the    *)
(* constructor's 300 is ScaledMaxFiles, the 200 of a directory of several  *)
(* projects is ScaledReducedMaxFiles.  The object is not destroyed.  A     *)
(* path is the array of its characters; the key of a file in the cache is  *)
(* its position in WorkspaceTree.  ignorePatterns, binaryExtensions and    *)
(* languageMap are cut down to the entries the names of the tree can match.*)

\* String.prototype.includes
Includes(s, q) == \E i \in 0..(Len(s) - Len(q)) : SubSeq(s, i + 1, i + Len(q)) = q

\* String.prototype.toLowerCase, on the letters that occur
ToLowerCase(s) ==
  [i \in 1..Len(s) |->
     CASE s[i] = "C" -> "c" [] s[i] = "G" -> "g" [] s[i] = "N" -> "n"
       [] s[i] = "P" -> "p" [] s[i] = "X" -> "x" [] OTHER -> s[i]]

\* path.extname of a file name
ExtName(n) ==
  LET dots == {i \in 2..Len(n) : n[i] = "."}
  IN IF dots = {} THEN <<>>
     ELSE SubSeq(n, CHOOSE i \in dots : \A j \in dots : j <= i, Len(n))

\* RegExp test at the start of s; p is the source of the regular expression
\* with ".*" written as "*"
RECURSIVE MatchHere(_, _)
MatchHere(p, s) ==
  IF p = <<>> THEN TRUE
  ELSE IF Head(p) = "*"
       THEN \E k \in 0..Len(s) : MatchHere(Tail(p), SubSeq(s, k + 1, Len(s)))
  ELSE IF s # <<>> /\ (Head(p) = "." \/ Head(p) = Head(s))
       THEN MatchHere(Tail(p), Tail(s))
  ELSE FALSE

\* the test of the regular expression built from a pattern with a star, anywhere
\* in path: lines 260-264
RegExpTest(pattern, path) ==
  \E k \in 0..Len(path) : MatchHere(pattern, SubSeq(path, k + 1, Len(path)))

\* this.ignorePatterns
ignorePatterns == <<<<"t", "m", "p">>, <<"*", ".", "l", "o", "g">>>>

\* shouldIgnore(path)
ShouldIgnore(path) ==
  \E i \in 1..Len(ignorePatterns) :
     IF Includes(ignorePatterns[i], <<"*">>)
     THEN RegExpTest(ignorePatterns[i], path)
     ELSE Includes(path, ignorePatterns[i])

\* binaryExtensions
binaryExtensions == {<<".", "p", "n", "g">>, <<".", "p", "d", "f">>}

\* isBinaryFile(filename)
IsBinaryFile(filename) == ToLowerCase(ExtName(filename)) \in binaryExtensions

\* MAX_FILE_SIZE
MAX_FILE_SIZE == 512 * 1024

\* the size limit of addFileToCache
AddFileSizeLimit == 1024 * 1024

\* The workspace on disk: a.c, e.log, big.c (one byte above MAX_FILE_SIZE),
\* p.PNG, tmp/x.c, src/main.c.  parent is the position of the directory of the
\* entry, 0 for the workspace directory.
WorkspaceTree ==
  <<[parent |-> 0, name |-> <<"a", ".", "c">>, isDirectory |-> FALSE, size |-> 10240],
    [parent |-> 0, name |-> <<"e", ".", "l", "o", "g">>, isDirectory |-> FALSE, size |-> 10240],
    [parent |-> 0, name |-> <<"b", "i", "g", ".", "c">>, isDirectory |-> FALSE,
     size |-> MAX_FILE_SIZE + 1],
    [parent |-> 0, name |-> <<"p", ".", "P", "N", "G">>, isDirectory |-> FALSE, size |-> 10240],
    [parent |-> 0, name |-> <<"t", "m", "p">>, isDirectory |-> TRUE, size |-> 0],
    [parent |-> 5, name |-> <<"x", ".", "c">>, isDirectory |-> FALSE, size |-> 10240],
    [parent |-> 0, name |-> <<"s", "r", "c">>, isDirectory |-> TRUE, size |-> 0],
    [parent |-> 7, name |-> <<"m", "a", "i", "n", ".", "c">>, isDirectory |-> FALSE,
     size |-> 10240]>>

\* readdir(dir): the entries of a directory
Children(d) == {e \in 1..Len(WorkspaceTree) : WorkspaceTree[e].parent = d}

\* relative(this.workspacePath, path)
RECURSIVE RelativePath(_)
RelativePath(e) ==
  IF e = 0 THEN <<>>
  ELSE IF WorkspaceTree[e].parent = 0 THEN WorkspaceTree[e].name
  ELSE RelativePath(WorkspaceTree[e].parent) \o <<"/">> \o WorkspaceTree[e].name

\* the files change notifications are delivered for
ChangedEntries == {1, 6}

\* validateWorkspacePath: this.MAX_FILES afterwards (lines 390-400)
ValidateWorkspacePath(max, projectLikeDirs) ==
  IF projectLikeDirs >= 3
  THEN IF max < ScaledReducedMaxFiles THEN max ELSE ScaledReducedMaxFiles
  ELSE IF projectLikeDirs = 1
       THEN IF max < ScaledMaxFiles + 2 THEN max ELSE ScaledMaxFiles + 2
  ELSE max

\* this.fileCache.size()
CacheSize(c) == Cardinality(DOMAIN c.cache)

\* the names isEntryPoint looks for (two of the list of lines 308-315)
entryPoints == {<<"m", "a", "i", "n", ".", "c">>, <<"a", "p", "p", ".", "j", "s">>}

\* isEntryPoint(filename)
IsEntryPoint(filename) == filename \in entryPoints

\* the names isConfigFile looks for (two of the list of lines 319-324)
configFiles == {<<"p", "o", "m", ".", "x", "m", "l">>,
                <<"R", "E", "A", "D", "M", "E", ".", "m", "d">>}

\* isConfigFile(filename)
IsConfigFile(filename) == filename \in configFiles

\* this.projectInfo before the first assignment
NoProjectInfo == [null |-> TRUE, totalFiles |-> 0, entryPoints |-> {}, configFiles |-> {}]

\* analyzeProject(files) for files of the workspace: totalFiles, entryPoints and
\* configFiles (lines 279-306); the language counts and the detected type are
\* left out
AnalyzeFiles(files) ==
  [null |-> FALSE,
   totalFiles |-> Cardinality(files),
   entryPoints |-> {e \in files : IsEntryPoint(WorkspaceTree[e].name)},
   configFiles |-> {e \in files : IsConfigFile(WorkspaceTree[e].name)}]

\* the projectInfo that workspacePersistence holds for the workspace
PersistedProjectInfo == AnalyzeFiles({8})

\* a scanWorkspace call: the directories whose readdir it awaits (0 is the
\* workspace directory), the entries whose stat it awaits, and, as ghost
\* bookkeeping, the files it has put into the cache
ScanAt(dirs, todo, inserted) ==
  [dirs |-> dirs, todo |-> todo, inserted |-> inserted]

ScanInit ==
  /\ lruFileCache = [cache |-> <<>>, accessOrder |-> <<>>]
  /\ maxFiles = ScaledMaxFiles
  /\ initialized = FALSE
  /\ scans = {}
  /\ cacheProjectInfo = NoProjectInfo

\* scanWorkspace() up to `await readdir` of the workspace directory: lines
\* 168-173, 179-196
ScanWorkspace ==
  /\ lruFileCache' = LruClear(lruFileCache)
  /\ scans' = scans \cup {ScanAt({0}, {}, {})}

\* initialize(workspacePath) from validateWorkspacePath to the `await readdir`
\* of the scan: lines 146-156; the awaits in between leave the cache alone;
\* persisted is TRUE when a projectInfo was saved for the workspace
ScanInitialize(projectLikeDirs, persisted) ==
  /\ ~initialized
  /\ Cardinality(scans) < MaxScans
  /\ initialized' = TRUE
  /\ maxFiles' = ValidateWorkspacePath(maxFiles, projectLikeDirs)
  /\ cacheProjectInfo' = IF persisted THEN PersistedProjectInfo ELSE cacheProjectInfo
  /\ ScanWorkspace
  /\ UNCHANGED <<cacheVars, poolVars, indexVars, watchVars, searchVars, listenerVars, emergencyVars>>

\* the handler of 'context:rescan' (main.js 2775-2789) up to the `await readdir`
Rescan ==
  /\ initialized
  /\ Cardinality(scans) < MaxScans
  /\ ScanWorkspace
  /\ UNCHANGED <<maxFiles, initialized, cacheProjectInfo, cacheVars, poolVars, indexVars, watchVars,
                 searchVars, listenerVars, emergencyVars>>

\* scanDirectory after `await readdir(dirPath)`: every entry of the batch starts
\* its stat (lines 196-206); ok is FALSE when readdir throws (lines 253-255)
ScanDirectoryListed(s, d, ok) ==
  /\ s \in scans
  /\ d \in s.dirs
  /\ LET new == IF ok THEN Children(d) ELSE {}
     IN scans' = (scans \ {s})
                   \cup {ScanAt(s.dirs \ {d}, s.todo \cup new, s.inserted)}
  /\ UNCHANGED <<lruFileCache, maxFiles, initialized, cacheProjectInfo, cacheVars,
                 poolVars, indexVars, watchVars, searchVars, listenerVars, emergencyVars>>

\* scanDirectory: the checks a file passes before it is put into the cache
\* (lines 216-223); size is this.fileCache.size()
ScanAccepts(e, size) ==
  /\ WorkspaceTree[e].size <= MAX_FILE_SIZE
  /\ ~IsBinaryFile(WorkspaceTree[e].name)
  /\ size < maxFiles

\* one entry of a batch after `await stat(fullPath)`: lines 206-240; ok is
\* FALSE when stat throws.  For a directory, scanDirectory is called and
\* returns when the directory is ignored or else awaits its readdir.
ScanEntryStat(s, e, ok) ==
  /\ s \in scans
  /\ e \in s.todo
  /\ IF ok /\ WorkspaceTree[e].isDirectory /\ ~ShouldIgnore(RelativePath(e))
     THEN /\ scans' = (scans \ {s})
                        \cup {ScanAt(s.dirs \cup {e}, s.todo \ {e}, s.inserted)}
          /\ UNCHANGED lruFileCache
     ELSE IF ok /\ ~WorkspaceTree[e].isDirectory /\ ScanAccepts(e, CacheSize(lruFileCache))
     THEN /\ lruFileCache' = LruSet(lruFileCache, e, e, 0, ScaledMaxFiles)
          /\ scans' = (scans \ {s})
                        \cup {ScanAt(s.dirs, s.todo \ {e}, s.inserted \cup {e})}
     ELSE /\ scans' = (scans \ {s})
                        \cup {ScanAt(s.dirs, s.todo \ {e}, s.inserted)}
          /\ UNCHANGED lruFileCache
  /\ UNCHANGED <<maxFiles, initialized, cacheProjectInfo, cacheVars, poolVars, indexVars,
                 watchVars, searchVars, listenerVars, emergencyVars>>

\* scanDirectory of the workspace directory returns and scanWorkspace ends:
\* lines 243-256, 174-177
ScanWorkspaceReturn(s) ==
  /\ s \in scans
  /\ s.dirs = {}
  /\ s.todo = {}
  /\ scans' = scans \ {s}
  /\ cacheProjectInfo' = AnalyzeFiles(s.inserted)
  /\ UNCHANGED <<lruFileCache, maxFiles, initialized, cacheVars, poolVars, indexVars,
                 watchVars, searchVars, listenerVars, emergencyVars>>

\* addFileToCache(filePath) after `await stat`: lines 617-640; ok is FALSE when
\* stat throws
AddFileToCache(c, e, ok) ==
  IF /\ ok
     /\ ~WorkspaceTree[e].isDirectory
     /\ WorkspaceTree[e].size <= AddFileSizeLimit
     /\ ~IsBinaryFile(WorkspaceTree[e].name)
  THEN LruSet(c, e, e, 0, ScaledMaxFiles)
  ELSE c

\* the callback of the debounce timer for a notification about file e: lines
\* 589-615, with addFileToCache, updateFileInCache (lines 641-653),
\* removeFileFromCache (lines 654-656) and updateProjectInfo (lines 657-660); ok
\* is FALSE when stat throws
ChangeApplied(type, e, ok) ==
  /\ initialized
  /\ e \in DOMAIN lruFileCache.cache => lruFileCache.cache[e].accessCount < MaxAccess
  /\ lruFileCache' =
       IF type = "add" THEN AddFileToCache(lruFileCache, e, ok)
       ELSE IF type = "unlink" THEN LruDelete(lruFileCache, e)
       ELSE IF LruHasResult(lruFileCache, e, 0)
            THEN LruGet(LruHas(lruFileCache, e, 0), e, 0)
            ELSE LruHas(lruFileCache, e, 0)
  /\ cacheProjectInfo' = AnalyzeFiles(DOMAIN lruFileCache'.cache)
  /\ UNCHANGED <<maxFiles, initialized, scans, cacheVars, poolVars, indexVars,
                 watchVars, searchVars, listenerVars, emergencyVars>>

ScanNext ==
  \/ \E projectLikeDirs \in 0..3, persisted \in BOOLEAN :
       ScanInitialize(projectLikeDirs, persisted)
  \/ Rescan
  \/ \E s \in scans, d \in {0} \cup (1..Len(WorkspaceTree)), ok \in BOOLEAN :
       ScanDirectoryListed(s, d, ok)
  \/ \E s \in scans, e \in 1..Len(WorkspaceTree), ok \in BOOLEAN : ScanEntryStat(s, e, ok)
  \/ \E s \in scans : ScanWorkspaceReturn(s)
  \/ \E type \in EventTypes, e \in ChangedEntries, ok \in BOOLEAN : ChangeApplied(type, e, ok)

----------------------------------------------------------------------------
(* Properties of the file cache under scans and change events              *)

\* the keys a step takes out of the cache, and the keys it puts in
KeysRemoved == (DOMAIN lruFileCache.cache) \ (DOMAIN lruFileCache'.cache)
KeysAdded == (DOMAIN lruFileCache'.cache) \ (DOMAIN lruFileCache.cache)

\* C23: once the cache holds MAX_FILES files, a scan rejects every further
\* file: at every point during and after a scan the cache holds at most
\* MAX_FILES files, and no record a scan in progress has put into the cache is
\* evicted to make room for another one.
C23_ScanStaysWithinMaxFiles ==
  [][/\ initialized' => CacheSize(lruFileCache') <= maxFiles'
     /\ \A s \in scans : KeysAdded # {} => s.inserted \cap KeysRemoved = {}]_vars

\* C24: when initialize finds three or more project-like subdirectories, the
\* capacity of the cache is lowered, and from then on the cache never holds
\* more files than the lowered capacity, whatever scans and add, change and
\* unlink notifications follow.
C24_ReducedCapacityHolds ==
  maxFiles = ScaledReducedMaxFiles => CacheSize(lruFileCache) <= ScaledReducedMaxFiles

\* entry e is not below an ignored directory
OutsideIgnored(e) ==
  WorkspaceTree[e].parent = 0 \/ ~ShouldIgnore(RelativePath(WorkspaceTree[e].parent))

\* C25: a scan never lists an ignored directory or calls stat for its entries,
\* and when it returns, no file it has put into the cache has a relative path
\* that matches an ignore pattern (of a directory, or of a file name such as
\* *.log), is larger than MAX_FILE_SIZE or has a binary extension.
C25_ScanCachesNoIgnoredFile ==
  [][/\ \A s \in scans' : \A e \in s.todo : OutsideIgnored(e)
     /\ \A s \in scans \ scans' :
          (s.dirs = {} /\ s.todo = {})
            => \A e \in s.inserted :
                  /\ ~ShouldIgnore(RelativePath(e))
                  /\ WorkspaceTree[e].size <= MAX_FILE_SIZE
                  /\ ~IsBinaryFile(WorkspaceTree[e].name)]_vars

\* the step is the end of a scanWorkspace call
ScanCompletes == \E s \in scans : s.dirs = {} /\ s.todo = {} /\ scans' = scans \ {s}

\* C31: whenever this.projectInfo is recomputed, at the end of a scan or after
\* a change notification was applied, it describes the records the cache holds
\* at that moment, and totalFiles is the size of the cache; also when a change
\* notification is applied while a scan is in progress.
C31_ProjectInfoDescribesCache ==
  [][(ScanCompletes \/ scans' = scans)
       => /\ cacheProjectInfo' = AnalyzeFiles(DOMAIN lruFileCache'.cache)
          /\ cacheProjectInfo'.totalFiles = CacheSize(lruFileCache')]_vars

----------------------------------------------------------------------------
(* LightweightContext.searchFiles                                          *)
(*                                                                         *)
(* cachedFiles is this.fileCache.values(): the FileRecords in the order of *)
(* the Map.  The age of a record is Date.now() - lastModified in hours, so *)
(* that daysSinceModified < 1 is age < 24.                                 *)

\* this.languageMap[ext] || 'unknown'
Language(name) ==
  LET ext == ToLowerCase(ExtName(name))
  IN IF ext = <<".", "c">> THEN <<"c">>
     ELSE IF ext = <<".", "g", "o">> THEN <<"g", "o">>
     ELSE <<"u", "n", "k", "n", "o", "w", "n">>

\* the fileInfo of scanDirectory and addFileToCache (lines 224-231, 625-632)
FileInfo(dir, name, age) ==
  [path |-> dir \o <<"/">> \o name, name |-> name, language |-> Language(name),
   age |-> age]

\* the records a cache is filled from: /w/go.c, /w/b.go, /go/X.C, /w/n.md, /w/o.c
FileRecords ==
  {FileInfo(<<"/", "w">>, <<"g", "o", ".", "c">>, 23),
   FileInfo(<<"/", "w">>, <<"b", ".", "g", "o">>, 24),
   FileInfo(<<"/", "g", "o">>, <<"X", ".", "C">>, 7 * 24),
   FileInfo(<<"/", "w">>, <<"n", ".", "m", "d">>, 7 * 24 - 1),
   FileInfo(<<"/", "w">>, <<"o", ".", "c">>, 7 * 24)}

\* the queries of the callers
Queries == {<<>>, <<"g", "o">>, <<"C">>, <<"z">>}

\* the score searchFiles gives a file: lines 413-431
RelevanceScore(file, q) ==
  LET queryLower == ToLowerCase(q) IN
  (IF Includes(ToLowerCase(file.name), queryLower) THEN 10 ELSE 0)
  + (IF Includes(ToLowerCase(file.path), queryLower) THEN 5 ELSE 0)
  + (IF Includes(ToLowerCase(file.language), queryLower) THEN 3 ELSE 0)
  + (IF file.age < 24 THEN 5 ELSE IF file.age < 7 * 24 THEN 2 ELSE 0)

\* a file with its relevanceScore set (line 433)
Scored(file, score) ==
  [path |-> file.path, name |-> file.name, language |-> file.language,
   age |-> file.age, relevanceScore |-> score]

\* the loop of searchFiles: results (lines 410-436)
RECURSIVE Matches(_, _)
Matches(files, q) ==
  IF files = <<>> THEN <<>>
  ELSE (IF RelevanceScore(Head(files), q) > 0
        THEN <<Scored(Head(files), RelevanceScore(Head(files), q))>>
        ELSE <<>>)
       \o Matches(Tail(files), q)

\* one step of the stable sort: r goes behind the records that do not score less
RECURSIVE InsertByScore(_, _)
InsertByScore(sorted, r) ==
  IF sorted = <<>> THEN <<r>>
  ELSE IF Head(sorted).relevanceScore >= r.relevanceScore
       THEN <<Head(sorted)>> \o InsertByScore(Tail(sorted), r)
       ELSE <<r>> \o sorted

\* (mutant) results are returned in the order of the cache
Unsorted(rs) == rs

\* results.sort((a, b) => b.relevanceScore - a.relevanceScore): line 438
RECURSIVE SortByScore(_)
SortByScore(rs) ==
  IF rs = <<>> THEN <<>>
  ELSE InsertByScore(SortByScore(SubSeq(rs, 1, Len(rs) - 1)), rs[Len(rs)])

\* Array.prototype.slice(0, n) for n >= 0
Slice(s, n) == IF n >= Len(s) THEN s ELSE SubSeq(s, 1, n)

SearchInit ==
  /\ cachedFiles \in {s \in UNION {[1..n -> FileRecords] : n \in 0..MaxCachedFiles} :
                        \A i, j \in 1..Len(s) : s[i].path = s[j].path => i = j}
  /\ query = <<>>
  /\ limit = 0
  /\ results = <<>>
  /\ searched = FALSE

\* searchFiles(q, n): lines 407-440
SearchFiles(q, n) ==
  /\ query' = q
  /\ limit' = n
  /\ results' = Slice(SortByScore(Matches(cachedFiles, q)), n)
  /\ searched' = TRUE
  /\ UNCHANGED <<cachedFiles, cacheVars, poolVars, indexVars, watchVars, scanVars, listenerVars, emergencyVars>>

SearchNext == \E q \in Queries, n \in 0..MaxLimit : SearchFiles(q, n)

----------------------------------------------------------------------------
(* Properties of searchFiles                                               *)

\* the score of a record for a query: 10 for a match of the name, 5 for a match
\* of the path, 3 for a match of the language, and 5 when the file was modified
\* within one day or else 2 when it was modified within seven days
ExpectedScore(r, q) ==
  (IF Includes(ToLowerCase(r.name), ToLowerCase(q)) THEN 10 ELSE 0)
  + (IF Includes(ToLowerCase(r.path), ToLowerCase(q)) THEN 5 ELSE 0)
  + (IF Includes(ToLowerCase(r.language), ToLowerCase(q)) THEN 3 ELSE 0)
  + (IF r.age < 24 THEN 5 ELSE IF r.age < 7 * 24 THEN 2 ELSE 0)

\* the position in the cache of the record with the path of r, 0 when the
\* cache has none
PositionOf(r) ==
  IF \E k \in 1..Len(cachedFiles) : cachedFiles[k].path = r.path
  THEN CHOOSE k \in 1..Len(cachedFiles) : cachedFiles[k].path = r.path
  ELSE 0

\* C29: searchFiles(query, limit) returns at most limit records of the cache,
\* each with its score, which is positive; the records are in descending order
\* of the score, records of equal score in the order of the cache; and no
\* record left out scores higher than a record returned.
C29_SearchReturnsTopByScore ==
  searched =>
    /\ Len(results) <= limit
    /\ \A i \in 1..Len(results) :
         /\ PositionOf(results[i]) > 0
         /\ results[i].relevanceScore = ExpectedScore(cachedFiles[PositionOf(results[i])], query)
         /\ results[i].relevanceScore > 0
    /\ \A i, j \in 1..Len(results) :
         i < j => \/ results[i].relevanceScore > results[j].relevanceScore
                  \/ /\ results[i].relevanceScore = results[j].relevanceScore
                     /\ PositionOf(results[i]) < PositionOf(results[j])
    /\ \A k \in 1..Len(cachedFiles) :
         (\A i \in 1..Len(results) : PositionOf(results[i]) # k)
           => \A i \in 1..Len(results) :
                 ExpectedScore(cachedFiles[k], query) <= results[i].relevanceScore

\* a search for "go" with limit 2 in a cache of three matching records has
\* returned the second and the third, which score the same, and left out the
\* first, which scores less
C29_Witness ==
  /\ searched
  /\ query = <<"g", "o">>
  /\ limit = 2
  /\ Len(cachedFiles) = 3
  /\ Len(results) = 2
  /\ results[1].relevanceScore = results[2].relevanceScore
  /\ PositionOf(results[1]) = 2
  /\ PositionOf(results[2]) = 3
  /\ ExpectedScore(cachedFiles[1], query) > 0

----------------------------------------------------------------------------
(* LightweightContext: the file-change listeners                           *)
(*                                                                         *)
(* onFileChange and notifyWatchers of one object with several listeners.   *)
(* A listener is named by the number in its callbackId.  Each call of      *)
(* notifyWatchers is given the listeners that throw when they are called   *)
(* and at most one listener that, when called, calls the cleanup function  *)
(* that onFileChange returned for some listener.  The for...of loop over   *)
(* the Map visits the entries in insertion order and skips an entry that   *)
(* was deleted before its turn.                                            *)

ListenerIds == 1..MaxListeners

\* no listener calls a cleanup function during this notification
NoCancel == [by |-> 0, target |-> 0]

\* the callbackIds of the entries of a Map
IdsOf(m) == {m[i].id : i \in 1..Len(m)}

\* the callbackIds of the entries whose callback is a function
CallableIds(m) == {m[i].id : i \in {j \in 1..Len(m) : m[j].callable}}

\* this.watcherCallbacks.delete(callbackId)
DeleteCallback(m, id) == SelectSeq(m, LAMBDA e : e.id # id)

\* the second loop of notifyWatchers: every id of deadCallbacks is deleted
RECURSIVE DeleteCallbacks(_, _)
DeleteCallbacks(m, dead) ==
  IF dead = <<>> THEN m ELSE DeleteCallbacks(DeleteCallback(m, Head(dead)), Tail(dead))

\* notifyWatchers before any callback was called
LoopStart(m) ==
  [map |-> m, invoked |-> <<>>, dead |-> <<>>, cancelled |-> {}, threw |-> FALSE]

\* what calling the callback of entry e does to the Map: the listener named by
\* cancel.by calls the cleanup function of cancel.target
AfterCallback(r, e, cancel) ==
  IF cancel.by = e.id
  THEN [r EXCEPT !.map = DeleteCallback(@, cancel.target),
                 !.cancelled = @ \cup {cancel.target},
                 !.invoked = Append(@, e.id)]
  ELSE [r EXCEPT !.invoked = Append(@, e.id)]

\* (mutant) the first loop of notifyWatchers without its try/catch: the
\* exception of a callback ends the loop and leaves notifyWatchers
RECURSIVE NotifyLoopNoCatch(_, _, _, _)
NotifyLoopNoCatch(todo, r, throwing, cancel) ==
  IF todo = <<>> \/ r.threw THEN r
  ELSE LET e == Head(todo) IN
       IF e.id \notin IdsOf(r.map) THEN NotifyLoopNoCatch(Tail(todo), r, throwing, cancel)
       ELSE IF ~e.callable
       THEN NotifyLoopNoCatch(Tail(todo), [r EXCEPT !.dead = Append(@, e.id)],
                              throwing, cancel)
       ELSE IF e.id \in throwing
       THEN NotifyLoopNoCatch(Tail(todo), [AfterCallback(r, e, cancel) EXCEPT !.threw = TRUE],
                              throwing, cancel)
       ELSE NotifyLoopNoCatch(Tail(todo), AfterCallback(r, e, cancel), throwing, cancel)

\* the first loop of notifyWatchers (lines 675-689) over the entries todo
RECURSIVE NotifyLoop(_, _, _, _)
NotifyLoop(todo, r, throwing, cancel) ==
  IF todo = <<>> THEN r
  ELSE LET e == Head(todo) IN
       IF e.id \notin IdsOf(r.map) THEN NotifyLoop(Tail(todo), r, throwing, cancel)
       ELSE IF ~e.callable
       THEN NotifyLoop(Tail(todo), [r EXCEPT !.dead = Append(@, e.id)], throwing, cancel)
       ELSE IF e.id \in throwing
       THEN NotifyLoop(Tail(todo),
                       [AfterCallback(r, e, cancel) EXCEPT !.dead = Append(@, e.id)],
                       throwing, cancel)
       ELSE NotifyLoop(Tail(todo), AfterCallback(r, e, cancel), throwing, cancel)

\* the record of a step that is not a call of notifyWatchers
NotNotified ==
  [called |-> FALSE, invoked |-> <<>>, threw |-> FALSE, registered |-> {},
   throwing |-> {}, cancel |-> NoCancel]

ListenersInit ==
  /\ callbackMap = <<>>
  /\ callbackIdCounter = 0
  /\ listenersDestroyed = FALSE
  /\ thrown = {}
  /\ unsubscribed = {}
  /\ notification = NotNotified

\* onFileChange(callback): lines 662-669; callable is FALSE when the argument is
\* not a function
OnFileChangeCalled(callable) ==
  /\ callbackIdCounter < MaxListeners
  /\ callbackIdCounter' = callbackIdCounter + 1
  /\ callbackMap' = Append(callbackMap, [id |-> callbackIdCounter + 1, callable |-> callable])
  /\ notification' = NotNotified
  /\ UNCHANGED <<listenersDestroyed, thrown, unsubscribed, cacheVars, poolVars, indexVars, watchVars, scanVars, searchVars,
                 emergencyVars>>

\* the cleanup function that onFileChange returned for listener id: lines 666-668
Unsubscribe(id) ==
  /\ id <= callbackIdCounter
  /\ callbackMap' = DeleteCallback(callbackMap, id)
  /\ unsubscribed' = unsubscribed \cup {id}
  /\ notification' = NotNotified
  /\ UNCHANGED <<callbackIdCounter, listenersDestroyed, thrown, cacheVars, poolVars, indexVars, watchVars, scanVars, searchVars,
                 emergencyVars>>

\* notifyWatchers(event, filePath): lines 670-694
NotifyWatchersCalled(throwing, cancel) ==
  /\ throwing \subseteq CallableIds(callbackMap)
  /\ cancel # NoCancel
       => (cancel.by \in CallableIds(callbackMap) /\ cancel.target \in IdsOf(callbackMap))
  /\ IF listenersDestroyed
     THEN /\ notification' = [NotNotified EXCEPT !.called = TRUE]
          /\ UNCHANGED <<callbackMap, thrown, unsubscribed>>
     ELSE LET r == NotifyLoop(callbackMap, LoopStart(callbackMap), throwing, cancel)
          IN /\ callbackMap' = IF r.threw THEN r.map ELSE DeleteCallbacks(r.map, r.dead)
             /\ thrown' = thrown \cup (throwing \cap SeqToSet(r.invoked))
             /\ unsubscribed' = unsubscribed \cup r.cancelled
             /\ notification' = [called |-> TRUE, invoked |-> r.invoked, threw |-> r.threw,
                             registered |-> CallableIds(callbackMap),
                             throwing |-> throwing, cancel |-> cancel]
  /\ UNCHANGED <<callbackIdCounter, listenersDestroyed, cacheVars, poolVars, indexVars, watchVars, scanVars, searchVars,
                 emergencyVars>>

\* cleanup(): of its statements, those on the listeners (lines 792-795, 800)
ListenersCleanup ==
  /\ ~listenersDestroyed
  /\ listenersDestroyed' = TRUE
  /\ callbackMap' = <<>>
  /\ notification' = NotNotified
  /\ UNCHANGED <<callbackIdCounter, thrown, unsubscribed, cacheVars, poolVars, indexVars, watchVars, scanVars, searchVars,
                 emergencyVars>>

ListenersNext ==
  \/ \E callable \in BOOLEAN : OnFileChangeCalled(callable)
  \/ \E id \in ListenerIds : Unsubscribe(id)
  \/ \E throwing \in SUBSET ListenerIds,
        cancel \in {NoCancel} \cup [by : ListenerIds, target : ListenerIds] :
       NotifyWatchersCalled(throwing, cancel)
  \/ ListenersCleanup

----------------------------------------------------------------------------
(* Properties of the file-change listeners                                 *)

\* the listeners of a notification that were to be called: those registered
\* with a function when notifyWatchers was called, but for one whose cleanup
\* function a listener called before its turn
Expected(n) ==
  {id \in n.registered :
     ~(n.cancel.target = id /\ n.cancel.by \in n.registered /\ n.cancel.by < id)}

\* C40: when a listener throws during notifyWatchers, the exception does not
\* leave notifyWatchers, every other registered listener is still called for
\* that event, and the throwing listener is removed from the listener Map, so
\* that no later notification calls it; a listener whose cleanup function was
\* called is not called by any later notification either.
C40_ThrowingListenerIsIsolated ==
  [][(notification'.called /\ ~listenersDestroyed)
       => /\ ~notification'.threw
          /\ SeqToSet(notification'.invoked) = Expected(notification')
          /\ Len(notification'.invoked) = Cardinality(Expected(notification'))
          /\ IdsOf(callbackMap') \cap notification'.throwing = {}
          /\ SeqToSet(notification'.invoked) \cap (thrown \cup unsubscribed) = {}]_vars

\* a notification has called two listeners of which the first threw, after an
\* earlier notification in which a third listener had thrown: the Map is left
\* with the listener that did not throw
C40_Witness ==
  /\ notification.called
  /\ Len(notification.invoked) = 2
  /\ notification.invoked[1] \in notification.throwing
  /\ notification.invoked[2] \notin notification.throwing
  /\ thrown \ notification.throwing # {}
  /\ IdsOf(callbackMap) = {notification.invoked[2]}

----------------------------------------------------------------------------
(* FileWatcherService (main.js)                                            *)
(*                                                                         *)
(* The singleton the IPC handlers and LightweightContext call.  The Maps   *)
(* fileIndex and emfileRetryAttempts are functions on the roots that have  *)
(* an entry; watchers keeps the Map's insertion order.  handleEMFILEError  *)
(* and markDirectoryFailed are the service's handlers for the failure of a *)
(* watch on a root; the environment delivers such failures for any root.   *)
(* handleFileEvent is the handler of a native watcher's file events; the   *)
(* environment delivers such events for any root.  fallbackReason is a     *)
(* text for display.  A handle is null (an inert entry) or a native        *)
(* watcher; closing a native watcher is the only await of unwatchDirectory *)
(* that suspends the caller.                                               *)

\* the roots the callers fail, refresh and unwatch
Roots == 1..NumRoots

EmfileRoots == 1..NumEmfileRoots

RefreshRoots == 1..NumRefreshRoots

\* value of a Map entry, or d when the Map has none
Lookup(f, k, d) == IF k \in DOMAIN f THEN f[k] ELSE d

maxWatchers == 25

maxRetryAttempts == 3

\* failedDirectories.size at which markDirectoryFailed enters fallback mode
FallbackThreshold == 3

\* estimatedFileCount above which the tree counts as too large to watch
LargeTreeThreshold == 15000

\* the roots a watch request can name: Roots and maxWatchers more
WatchRoots == 1..(NumRoots + maxWatchers)

\* getDirectoryStats(dirPath).estimatedFileCount as the directory trees of the
\* run have it: the last of Roots is a large tree, the others are small
EstimatedFileCount(d) == IF d = NumRoots THEN LargeTreeThreshold + 1 ELSE NumFiles

Strategies == {"conservative", "minimal"}

\* an emitted event: its name and the fields of its payload ("" or 0 or <<>>
\* for the fields the payload does not have)
Event(name, d) ==
  [name |-> name, directory |-> d, type |-> "", path |-> 0, stats |-> "",
   reason |-> "", events |-> <<>>]

\* a change object of manualRefresh: {type, path, relativePath, stats: null};
\* relativePath is a function of directory and path
Change(type, f) == [type |-> type, path |-> f, stats |-> "null"]

\* emit('file:change', {directory, event})
FileChangeEvent(d, ch) ==
  [Event("file:change", d) EXCEPT !.type = ch.type, !.path = ch.path, !.stats = ch.stats]

\* emit('batch:change', {directory, events})
BatchChangeEvent(d, chs) == [Event("batch:change", d) EXCEPT !.events = chs]

\* emit('directory:skipped', {directory, reason})
SkippedEvent(d, reason) == [Event("directory:skipped", d) EXCEPT !.reason = reason]

\* the elements of a set of numbers in ascending order
RECURSIVE AscSeq(_)
AscSeq(S) ==
  IF S = {} THEN <<>>
  ELSE LET m == CHOOSE x \in S : \A y \in S : x <= y
       IN <<m>> \o AscSeq(S \ {m})

\* this.watchers.has(d)
HasWatcher(W, d) == \E i \in 1..Len(W) : W[i].dir = d

\* this.watchers.delete(d)
DeleteWatcher(W, d) == SelectSeq(W, LAMBDA w : w.dir # d)

\* this.watchers.set(d, h): the entry keeps its place if there is one
SetWatcher(W, d, h) ==
  IF HasWatcher(W, d)
  THEN [i \in 1..Len(W) |-> IF W[i].dir = d THEN [dir |-> d, handle |-> h] ELSE W[i]]
  ELSE Append(W, [dir |-> d, handle |-> h])

\* the roots of this.watchers.keys(), in the Map's order
WatcherDirs(W) == [i \in 1..Len(W) |-> W[i].dir]

\* the fields unwatchDirectory and watchDirectory work on
Svc ==
  [watchers |-> watchers, fileIndex |-> fileIndex,
   attempts |-> emfileRetryAttempts, count |-> watcherCount, queue |-> changeQueue]

\* unwatchDirectory(d) on an entry whose handle is null
Unwatch(s, d) ==
  IF HasWatcher(s.watchers, d)
  THEN [watchers |-> DeleteWatcher(s.watchers, d),
        fileIndex |-> Without(s.fileIndex, d),
        attempts |-> Without(s.attempts, d),
        count |-> s.count - 1,
        queue |-> SelectSeq(s.queue, LAMBDA q : q.dir # d)]
  ELSE s

\* unwatchDirectory for each root of a list
RECURSIVE UnwatchAll(_, _)
UnwatchAll(s, dirs) ==
  IF dirs = <<>> THEN s ELSE UnwatchAll(Unwatch(s, Head(dirs)), Tail(dirs))

\* the roots of W sorted by the size of their file index, largest first, roots
\* of equal size in the Map's order (Array.prototype.sort is stable)
RECURSIVE SortBySize(_, _)
SortBySize(W, FI) ==
  IF W = <<>> THEN <<>>
  ELSE LET size(i) == Cardinality(Lookup(FI, W[i].dir, {}))
           first == CHOOSE i \in 1..Len(W) :
                      /\ \A j \in 1..Len(W) : size(j) <= size(i)
                      /\ \A j \in 1..(i - 1) : size(j) < size(i)
       IN <<W[first].dir>> \o SortBySize(DeleteWatcher(W, W[first].dir), FI)

\* performAggressiveCleanup(): the roots it unwatches, the first half (rounded
\* up) of the sorted entries
AggressiveTargets(W, FI) == SubSeq(SortBySize(W, FI), 1, (Len(W) + 1) \div 2)

\* a watchDirectory that registers an inert entry for a root that has none,
\* the way the statements for a large tree do (lines 3783-3785)
WatchEffectInert(s, d) ==
  IF HasWatcher(s.watchers, d) THEN s
  ELSE [s EXCEPT !.watchers = SetWatcher(@, d, "null"),
                 !.fileIndex = With(@, d, {}),
                 !.count = @ + 1]

\* what watchDirectory(d) registers before it returns: nothing, it returns
\* right after emitting 'directory:skipped' (lines 3749-3752)
WatchEffect(s, d) == s

\* the events watchDirectory(d) emits
WatchEvents(d) == <<SkippedEvent(d, "emergency_disabled")>>

FileWatcherInit ==
  /\ watchers = <<>>
  /\ watcherCount = 0
  /\ fileIndex = <<>>
  /\ emfileRetryAttempts = <<>>
  /\ retryTimers = <<>>
  /\ failedDirectories = {}
  /\ fallbackMode = FALSE
  /\ isWatchingDisabled = FALSE
  /\ watchingStrategy = "conservative"
  /\ disk = [d \in Roots |-> {}]
  /\ emitted = <<>>
  /\ request = [op |-> "new", dir |-> 0]
  /\ emfileRun = <<>>
  /\ requested = NumRoots
  /\ changeQueue = <<>>
  /\ debounceTimeout = FALSE

\* the service's fields after a step whose result is the record s
Assign(s) ==
  /\ watchers' = s.watchers
  /\ fileIndex' = s.fileIndex
  /\ emfileRetryAttempts' = s.attempts
  /\ watcherCount' = s.count
  /\ changeQueue' = s.queue

\* watchDirectory(d, options): lines 3748-3752.  The roots beyond Roots are
\* named once each, in order.
WatchDirectory(d) ==
  /\ d \in Roots \/ d = requested + 1
  /\ requested' = IF d > requested THEN d ELSE requested
  /\ Assign(WatchEffect(Svc, d))
  /\ emitted' = WatchEvents(d)
  /\ request' = [op |-> "watchDirectory", dir |-> d]
  /\ UNCHANGED <<debounceTimeout,
                 retryTimers, failedDirectories, fallbackMode, isWatchingDisabled,
                 watchingStrategy, disk, emfileRun, cacheVars, poolVars, indexVars, scanVars, searchVars, listenerVars, emergencyVars>>

\* unwatchDirectory(d): lines 3910-3928
UnwatchDirectory(d) ==
  /\ Assign(Unwatch(Svc, d))
  /\ emitted' = <<>>
  /\ request' = [op |-> "unwatchDirectory", dir |-> d]
  /\ UNCHANGED <<debounceTimeout,
                 retryTimers, failedDirectories, fallbackMode, isWatchingDisabled,
                 watchingStrategy, disk, emfileRun, requested, cacheVars, poolVars,
                 indexVars, scanVars, searchVars, listenerVars, emergencyVars>>

\* handleEMFILEError(d, error): lines 4244-4278
HandleEMFILEError(d) ==
  LET s1 == Unwatch(Svc, d)
      s2 == UnwatchAll(s1, AggressiveTargets(s1.watchers, s1.fileIndex))
      retryCount == Lookup(s2.attempts, d, 0)
  IN
  /\ Lookup(emfileRun, d, 0) < MaxErrors
  /\ Lookup(retryTimers, d, 0) < MaxPending
  /\ IF retryCount < maxRetryAttempts
     THEN /\ Assign([s2 EXCEPT !.attempts = With(@, d, retryCount + 1)])
          /\ retryTimers' = With(retryTimers, d, Lookup(retryTimers, d, 0) + 1)
          /\ emitted' = <<>>
     ELSE /\ Assign([s2 EXCEPT !.attempts = Without(@, d)])
          /\ emitted' = <<Event("error", d)>>
          /\ UNCHANGED retryTimers
  /\ emfileRun' = With(emfileRun, d, Lookup(emfileRun, d, 0) + 1)
  /\ request' = [op |-> "handleEMFILEError", dir |-> d]
  /\ UNCHANGED <<debounceTimeout,
                 failedDirectories, fallbackMode, isWatchingDisabled, watchingStrategy,
                 disk, requested, cacheVars, poolVars, indexVars, scanVars, searchVars, listenerVars, emergencyVars>>

\* the setTimeout callback of handleEMFILEError: lines 4256-4270.  watchDirectory
\* returns without throwing, so the retry count is cleared.
RetryFires(d) ==
  LET s == WatchEffect(Svc, d) IN
  /\ Lookup(retryTimers, d, 0) > 0
  /\ retryTimers' = IF retryTimers[d] = 1 THEN Without(retryTimers, d)
                    ELSE With(retryTimers, d, retryTimers[d] - 1)
  /\ Assign([s EXCEPT !.attempts = Without(@, d)])
  /\ emitted' = WatchEvents(d)
  /\ request' = [op |-> "retry", dir |-> d]
  /\ UNCHANGED <<debounceTimeout,
                 failedDirectories, fallbackMode, isWatchingDisabled, watchingStrategy,
                 disk, emfileRun, requested, cacheVars, poolVars, indexVars, scanVars, searchVars, listenerVars, emergencyVars>>

\* markDirectoryFailed(d, error) with enterFallbackMode: lines 4346-4354, 4322-4329
MarkDirectoryFailed(d) ==
  LET failed == failedDirectories \cup {d} IN
  /\ failedDirectories' = failed
  /\ IF Cardinality(failed) >= FallbackThreshold
     THEN /\ fallbackMode' = TRUE
          /\ emitted' = <<Event("fallback:activated", 0), Event("directory:failed", d)>>
     ELSE /\ UNCHANGED fallbackMode
          /\ emitted' = <<Event("directory:failed", d)>>
  /\ request' = [op |-> "markDirectoryFailed", dir |-> d]
  /\ UNCHANGED <<changeQueue, debounceTimeout,
                 watchers, watcherCount, fileIndex, emfileRetryAttempts, retryTimers,
                 isWatchingDisabled, watchingStrategy, disk, emfileRun, requested,
                 cacheVars, poolVars, indexVars, scanVars, searchVars, listenerVars, emergencyVars>>

\* resetFallbackMode(): lines 4368-4374
ResetFallbackMode ==
  /\ fallbackMode' = FALSE
  /\ failedDirectories' = {}
  /\ emitted' = <<Event("fallback:reset", 0)>>
  /\ request' = [op |-> "resetFallbackMode", dir |-> 0]
  /\ UNCHANGED <<changeQueue, debounceTimeout,
                 watchers, watcherCount, fileIndex, emfileRetryAttempts, retryTimers,
                 isWatchingDisabled, watchingStrategy, disk, emfileRun, requested,
                 cacheVars, poolVars, indexVars, scanVars, searchVars, listenerVars, emergencyVars>>

\* emit('configuration:changed', {enabled, strategy})
ConfigurationChanged(enabled, strategy) ==
  [Event("configuration:changed", 0) EXCEPT
     !.type = IF enabled THEN "enabled" ELSE "disabled", !.reason = strategy]

\* setWatchingConfiguration(config): lines 4491-4518; enabled and strategy are
\* "undefined" when config leaves them out.  stopAll() finds null handles
\* only, so its promise is resolved when the call returns.
SetWatchingConfiguration(enabled, strategy) ==
  LET previouslyDisabled == isWatchingDisabled
      disabled == IF enabled = "undefined" THEN isWatchingDisabled ELSE enabled = "false"
      strat == IF strategy = "undefined" THEN watchingStrategy ELSE strategy
      stopped == IF ~previouslyDisabled /\ disabled
                 THEN UnwatchAll(Svc, WatcherDirs(watchers)) ELSE Svc
  IN
  /\ isWatchingDisabled' = disabled
  /\ watchingStrategy' = strat
  /\ Assign(stopped)
  /\ IF previouslyDisabled /\ ~disabled
     THEN /\ fallbackMode' = FALSE
          /\ failedDirectories' = {}
     ELSE UNCHANGED <<fallbackMode, failedDirectories>>
  /\ emitted' =
       (IF previouslyDisabled /\ ~disabled
        THEN <<Event("fallback:reset", 0), ConfigurationChanged(TRUE, strat)>>
        ELSE <<>>)
       \o (IF strategy # "undefined" /\ previouslyDisabled = disabled
           THEN <<ConfigurationChanged(~disabled, strat)>> ELSE <<>>)
       \o (IF ~previouslyDisabled /\ disabled
           THEN <<ConfigurationChanged(FALSE, strat)>> ELSE <<>>)
  /\ request' = [op |-> "setWatchingConfiguration", dir |-> 0]
  /\ UNCHANGED <<debounceTimeout,
                 retryTimers, disk, emfileRun, requested, cacheVars, poolVars, indexVars, scanVars, searchVars, listenerVars, emergencyVars>>

\* a manualRefresh that does not look for deleted files
ChangesAddsOnly(currentIndex, newFiles) ==
  LET added == AscSeq(newFiles \ currentIndex)
  IN [i \in 1..Len(added) |-> Change("add", added[i])]

\* manualRefresh: the change objects, an 'add' for each scanned file that
\* currentIndex lacks, then an 'unlink' for each file of currentIndex that the
\* scan did not find (lines 4396-4426)
Changes(currentIndex, newFiles) ==
  LET added == AscSeq(newFiles \ currentIndex)
      deleted == AscSeq(currentIndex \ newFiles)
  IN [i \in 1..Len(added) |-> Change("add", added[i])]
     \o [i \in 1..Len(deleted) |-> Change("unlink", deleted[i])]

\* manualRefresh: the events emitted for the changes (lines 4430-4432)
RefreshNotifications(d, chs) == [i \in 1..Len(chs) |-> FileChangeEvent(d, chs[i])]

\* manualRefresh(d): lines 4378-4440; readable is FALSE when readdirSync
\* throws, and the call then throws before it has changed or emitted anything.
\* The awaits of the scan are of promises already resolved.
ManualRefresh(d, readable) ==
  LET currentIndex == Lookup(fileIndex, d, {})
      newFiles == disk[d]
      changes == Changes(currentIndex, newFiles)
  IN
  /\ IF readable
     THEN /\ fileIndex' = With(fileIndex, d, newFiles)
          /\ emitted' = RefreshNotifications(d, changes)
          /\ request' = [op |-> "manualRefresh", dir |-> d]
     ELSE /\ UNCHANGED fileIndex
          /\ emitted' = <<>>
          /\ request' = [op |-> "manualRefreshThrows", dir |-> d]
  /\ UNCHANGED <<changeQueue, debounceTimeout,
                 watchers, watcherCount, emfileRetryAttempts, retryTimers,
                 failedDirectories, fallbackMode, isWatchingDisabled, watchingStrategy,
                 disk, emfileRun, requested, cacheVars, poolVars, indexVars, scanVars, searchVars, listenerVars, emergencyVars>>

\* a file of a root is created or deleted on disk
DiskChange(d, f) ==
  /\ disk' = [disk EXCEPT ![d] = IF f \in @ THEN @ \ {f} ELSE @ \cup {f}]
  /\ emitted' = <<>>
  /\ request' = [op |-> "disk", dir |-> d]
  /\ UNCHANGED <<changeQueue, debounceTimeout,
                 watchers, watcherCount, fileIndex, emfileRetryAttempts, retryTimers,
                 failedDirectories, fallbackMode, isWatchingDisabled, watchingStrategy,
                 emfileRun, requested, cacheVars, poolVars, indexVars, scanVars, searchVars, listenerVars, emergencyVars>>

\* the paths of file events: the files and one path below node_modules
NodeModulesPath == NumFiles + 1

LivePaths == Files \cup {NodeModulesPath}

\* filePath.includes('node_modules')
InNodeModules(p) == p = NodeModulesPath

\* the roots that get file events
LiveRoots == 1..NumLiveRoots

\* the event object of handleFileEvent: {type, path, relativePath, stats};
\* chokidar passes no stats with 'unlink'
LiveEvent(type, p) ==
  [type |-> type, path |-> p, stats |-> IF type = "unlink" THEN "undefined" ELSE "stats"]

\* this.changeQueue.get(d), <<>> when the Map has no entry
QueueOf(Q, d) ==
  IF \E i \in 1..Len(Q) : Q[i].dir = d
  THEN Q[CHOOSE i \in 1..Len(Q) : Q[i].dir = d].events
  ELSE <<>>

\* this.changeQueue.get(d).push(e), after the entry is created if missing
PushEvent(Q, d, e) ==
  IF \E i \in 1..Len(Q) : Q[i].dir = d
  THEN [i \in 1..Len(Q) |-> IF Q[i].dir = d THEN [Q[i] EXCEPT !.events = Append(@, e)] ELSE Q[i]]
  ELSE Append(Q, [dir |-> d, events |-> <<e>>])

\* the number of events queued for all roots
RECURSIVE Queued(_)
Queued(Q) == IF Q = <<>> THEN 0 ELSE Len(Head(Q).events) + Queued(Tail(Q))

\* a processChangeQueue that reports the first event of each file
LiveNotificationsFirstEvent(d, es) ==
  IF es = <<>> THEN <<>>
  ELSE LET firsts == AscSeq({i \in 1..Len(es) : \A j \in 1..(i - 1) : es[j].path # es[i].path})
       IN [n \in 1..Len(firsts) |-> FileChangeEvent(d, es[firsts[n]])]
          \o <<BatchChangeEvent(d, es)>>

\* processChangeQueue for the queued events es of root d (lines 3995-4020):
\* nothing for an empty queue; otherwise a 'file:change' with the latest event
\* of each file, the files in the order of their first event, then one
\* 'batch:change' with all the events
LiveNotifications(d, es) ==
  IF es = <<>> THEN <<>>
  ELSE LET firsts == AscSeq({i \in 1..Len(es) : \A j \in 1..(i - 1) : es[j].path # es[i].path})
           latest(i) == CHOOSE j \in 1..Len(es) :
                          /\ es[j].path = es[i].path
                          /\ \A k \in (j + 1)..Len(es) : es[k].path # es[i].path
       IN [n \in 1..Len(firsts) |-> FileChangeEvent(d, es[latest(firsts[n])])]
          \o <<BatchChangeEvent(d, es)>>

\* processChangeQueue: the events emitted for the entries of the Map, in the
\* Map's order
RECURSIVE QueueNotifications(_)
QueueNotifications(Q) ==
  IF Q = <<>> THEN <<>>
  ELSE LiveNotifications(Head(Q).dir, Head(Q).events) \o QueueNotifications(Tail(Q))

\* handleFileEvent(type, d, p, stats): lines 3957-3985
HandleFileEvent(type, d, p) ==
  /\ Queued(changeQueue) < MaxQueue
  /\ IF InNodeModules(p)
     THEN UNCHANGED <<fileIndex, changeQueue, debounceTimeout>>
     ELSE /\ fileIndex' =
               IF d \in DOMAIN fileIndex
               THEN [fileIndex EXCEPT ![d] = IF type = "unlink" THEN @ \ {p} ELSE @ \cup {p}]
               ELSE fileIndex
          /\ changeQueue' = PushEvent(changeQueue, d, LiveEvent(type, p))
          /\ debounceTimeout' = TRUE
  /\ emitted' = <<>>
  /\ request' = [op |-> "handleFileEvent", dir |-> d]
  /\ UNCHANGED <<watchers, watcherCount, emfileRetryAttempts, retryTimers,
                 failedDirectories, fallbackMode, isWatchingDisabled, watchingStrategy,
                 disk, emfileRun, requested, cacheVars, poolVars, indexVars, scanVars, searchVars, listenerVars, emergencyVars>>

\* the timer of processChangeQueueDebounced fires (lines 3711-3722) and
\* processChangeQueue runs: lines 3990-4028.  It has no await, so
\* processingQueue is false whenever it is called.
ProcessChangeQueue ==
  /\ debounceTimeout
  /\ debounceTimeout' = FALSE
  /\ emitted' = QueueNotifications(changeQueue)
  /\ changeQueue' = [i \in 1..Len(changeQueue) |-> [changeQueue[i] EXCEPT !.events = <<>>]]
  /\ request' = [op |-> "processChangeQueue", dir |-> 0]
  /\ UNCHANGED <<watchers, watcherCount, fileIndex, emfileRetryAttempts, retryTimers,
                 failedDirectories, fallbackMode, isWatchingDisabled, watchingStrategy,
                 disk, emfileRun, requested, cacheVars, poolVars, indexVars, scanVars, searchVars, listenerVars, emergencyVars>>

\* file events of a native watcher and the debounced queue, with unwatch and
\* refresh calls
LiveNext ==
  \/ \E type \in EventTypes, d \in LiveRoots, p \in LivePaths : HandleFileEvent(type, d, p)
  \/ ProcessChangeQueue
  \/ \E d \in LiveRoots : UnwatchDirectory(d)
  \/ \E d \in RefreshRoots : ManualRefresh(d, TRUE)

FileWatcherNext ==
  \/ \E d \in Roots : WatchDirectory(d)
  \/ \E d \in Roots : UnwatchDirectory(d)
  \/ \E d \in EmfileRoots : HandleEMFILEError(d)
  \/ \E d \in EmfileRoots : RetryFires(d)
  \/ \E d \in Roots : MarkDirectoryFailed(d)
  \/ ResetFallbackMode
  \/ \E enabled \in {"undefined", "true", "false"}, strategy \in {"undefined"} \cup Strategies :
       SetWatchingConfiguration(enabled, strategy)
  \/ \E d \in RefreshRoots, readable \in BOOLEAN : ManualRefresh(d, readable)
  \/ \E d \in RefreshRoots, f \in Files : DiskChange(d, f)

\* the first EMFILE error of a root
FirstEMFILEError(d) == d \notin DOMAIN emfileRun /\ HandleEMFILEError(d)

\* watch requests for more roots than maxWatchers, with unwatch calls and one
\* EMFILE error, with its cleanup and its retry, on the first root
WatchLimitNext ==
  \/ \E d \in EmfileRoots \cup (WatchRoots \ Roots) : WatchDirectory(d)
  \/ \E d \in EmfileRoots : UnwatchDirectory(d)
  \/ \E d \in EmfileRoots : FirstEMFILEError(d)
  \/ \E d \in EmfileRoots : RetryFires(d)

----------------------------------------------------------------------------
(* Properties of the FileWatcherService                                    *)

\* the step schedules a retry timer for root d
RetryScheduled(d) == Lookup(retryTimers', d, 0) > Lookup(retryTimers, d, 0)

WatchRequest(d) == request' = [op |-> "watchDirectory", dir |-> d]

\* the handle this.watchers holds for root d, "none" when it has no entry
HandleOf(W, d) ==
  IF HasWatcher(W, d) THEN W[CHOOSE i \in 1..Len(W) : W[i].dir = d].handle ELSE "none"

\* C16: a watch request for a root whose estimated file count exceeds the
\* large-tree threshold takes the root directly to the inert state: an inert
\* handle is registered for it, a skipped notification is issued and no
\* native watcher is created.
C16_LargeTreeGoesInert ==
  [][\A d \in Roots :
       (WatchRequest(d) /\ EstimatedFileCount(d) > LargeTreeThreshold)
         => /\ HandleOf(watchers', d) = "null"
            /\ \E i \in 1..Len(emitted') :
                 emitted'[i].name = "directory:skipped" /\ emitted'[i].directory = d]_vars

\* the step brings the number of failed roots to the threshold or beyond
ThresholdReached ==
  /\ failedDirectories' # failedDirectories
  /\ Cardinality(failedDirectories') >= FallbackThreshold

C18_AtMostMaxWatchers == Len(watchers) <= maxWatchers

\* more roots than maxWatchers have been asked for, an EMFILE error has been
\* handled and the last call was an unwatch
C18_Witness ==
  /\ requested = NumRoots + maxWatchers
  /\ Lookup(emfileRun, 1, 0) > 0
  /\ request.op = "unwatchDirectory"

\* the step is a manualRefresh(d) that returns
Refreshed(d) == request' = [op |-> "manualRefresh", dir |-> d]

\* the number of events of the sequence es of the given type for file f
EventCount(es, type, f) ==
  Cardinality({i \in 1..Len(es) : es[i].type = type /\ es[i].path = f})

\* C19: manualRefresh(root) emits exactly one add event for each path that is
\* present now and absent from the recorded set, one remove event for each
\* path that is recorded and absent now, and nothing else; it replaces the
\* recorded set by the present one, so a second manualRefresh with no change
\* on disk in between emits no event.
C19_RefreshEmitsDiff ==
  [][\A d \in RefreshRoots :
       Refreshed(d)
         => LET recorded == Lookup(fileIndex, d, {}) IN
            /\ \A f \in Files :
                 /\ EventCount(emitted', "add", f)
                      = (IF f \in disk[d] \ recorded THEN 1 ELSE 0)
                 /\ EventCount(emitted', "unlink", f)
                      = (IF f \in recorded \ disk[d] THEN 1 ELSE 0)
            /\ \A i \in 1..Len(emitted') :
                 /\ emitted'[i].name = "file:change"
                 /\ emitted'[i].directory = d
                 /\ emitted'[i].type \in {"add", "unlink"}
            /\ Lookup(fileIndex', d, {}) = disk[d]
            /\ request = [op |-> "manualRefresh", dir |-> d] => emitted' = <<>>]_vars

\* a manualRefresh has just reported one file as added and another as removed
C19_Witness ==
  /\ request.op = "manualRefresh"
  /\ \E i, j \in 1..Len(emitted) : emitted[i].type = "add" /\ emitted[j].type = "unlink"

\* C20: manualRefresh emits the same notifications as live watching does
\* after its debounce for the same changes: one individual change
\* notification for each changed path and one batch notification with the
\* full list of events, the events having the same shape.
C20_RefreshEmitsAsLiveWatching ==
  [][\A d \in RefreshRoots :
       Refreshed(d)
         => emitted' = LiveNotifications(d, Changes(Lookup(fileIndex, d, {}), disk[d]))]_vars

\* C26: an error of readdir or stat on one file or directory during a scan of
\* the LightweightContext or during manualRefresh makes the operation skip that
\* entry only: the operation does not throw and processes every other entry.
\* For manualRefresh: when files of the root have been created or deleted since
\* the last refresh, a call returns, also when readdirSync fails for one
\* directory of the tree, and it emits notifications.
C26_RefreshSurvivesReadError ==
  [][\A d \in RefreshRoots :
        ( /\ request'.dir = d
          /\ request'.op \in {"manualRefresh", "manualRefreshThrows"}
          /\ Lookup(fileIndex, d, {}) # disk[d] )
          => /\ request'.op = "manualRefresh"
             /\ emitted' # <<>>]_vars

\* the roots that have an entry in this.watchers
WatchedRoots == SeqToSet(WatcherDirs(watchers))

\* the roots that have an entry in this.changeQueue
QueuedRoots == {changeQueue[i].dir : i \in 1..Len(changeQueue)}

\* C39: in every reachable state of the FileWatcherService the roots that have
\* a file index or a list of pending changes are roots of the watcher Map,
\* watcherCount is the size of that Map, and when unwatchDirectory(root) has
\* returned nothing is kept for root: no file index, no pending changes and no
\* retry counter; also when manualRefresh was called for a root that was never
\* watched.  The retry counters of the other roots are left out of the
\* statement: only handleEMFILEError writes them, and that is called from the
\* error handler of a watcher, which this build never creates.
C39_BookkeepingOnlyForWatchedRoots ==
  /\ DOMAIN fileIndex \subseteq WatchedRoots
  /\ QueuedRoots \subseteq WatchedRoots
  /\ watcherCount = Len(watchers)
  /\ request.op = "unwatchDirectory"
       => request.dir \notin (DOMAIN fileIndex) \cup QueuedRoots
                               \cup (DOMAIN emfileRetryAttempts)

\* the notifications of the sequence es that are for root d
NotificationsFor(es, d) == SelectSeq(es, LAMBDA e : e.directory = d)

\* the paths of the events es
PathsIn(es) == {es[i].path : i \in 1..Len(es)}

\* the last event of es for path p
LatestFor(es, p) ==
  es[CHOOSE i \in 1..Len(es) :
       es[i].path = p /\ \A k \in (i + 1)..Len(es) : es[k].path # p]

----------------------------------------------------------------------------
(* LightweightContext.emergencyCleanup                                     *)

\* the names of the records a cache can hold, by path: a.c, b.c, main.c and
\* pom.xml
EmergencyFiles ==
  <<<<"a", ".", "c">>, <<"b", ".", "c">>, <<"m", "a", "i", "n", ".", "c">>,
    <<"p", "o", "m", ".", "x", "m", "l">>>>

\* the orders in which records of EmergencyFiles can have been inserted
EntryOrders ==
  {o \in UNION {[1..n -> 1..Len(EmergencyFiles)] : n \in 0..Len(EmergencyFiles)} :
     \A i, j \in DOMAIN o : i # j => o[i] # o[j]}

\* isConfigFile(file.name) || isEntryPoint(file.name) for the record of entry e
IsConfig(e) == IsConfigFile(EmergencyFiles[e.path]) \/ IsEntryPoint(EmergencyFiles[e.path])

\* the entries that are left after this.fileCache.forceCleanup()
LiveEntries(entries) == SelectSeq(entries, LAMBDA e : ~e.expired)

\* the loop of lines 768-780 on the entries left to visit: kept is the cache
\* as re-filled so far
RECURSIVE KeepLoop(_, _)
KeepLoop(entries, kept) ==
  IF entries = <<>> \/ Len(kept) >= ScaledKeepLimit
  THEN kept
  ELSE IF IsConfig(Head(entries)) \/ Len(kept) < ScaledKeepAny
       THEN KeepLoop(Tail(entries), Append(kept, Head(entries)))
       ELSE KeepLoop(Tail(entries), kept)

\* a cache with some records, some of them expired
EmergencyInit ==
  /\ \E o \in EntryOrders, old \in SUBSET (1..Len(EmergencyFiles)) :
       fileEntries = [i \in DOMAIN o |-> [path |-> o[i], expired |-> o[i] \in old]]
  /\ entriesBefore = <<>>
  /\ cleanedUp = FALSE

\* emergencyCleanup(), lines 755-789, on an instance that is not destroyed; the
\* scan debounce timer it clears is not part of this component
EmergencyCleanup ==
  /\ LET live == LiveEntries(fileEntries)
     IN fileEntries' = IF Len(live) > ScaledKeepLimit THEN KeepLoop(live, <<>>) ELSE live
  /\ entriesBefore' = fileEntries
  /\ cleanedUp' = TRUE
  /\ UNCHANGED <<cacheVars, poolVars, indexVars, watchVars, scanVars, searchVars,
                 listenerVars>>

EmergencyNext == EmergencyCleanup

\* C33: emergencyCleanup on a cache holding more than the keep limit of
\* unexpired records leaves at most that many records, all from the previous
\* contents; no record without a configuration or entry-point name is kept
\* while one with such a name is discarded; among records of the same kind the
\* earlier-inserted ones are kept first.
C33_CleanupPrefersConfigFiles ==
  LET before == LiveEntries(entriesBefore)
      kept == SeqToSet(fileEntries)
  IN (cleanedUp /\ Len(before) > ScaledKeepLimit)
       => /\ Len(fileEntries) <= ScaledKeepLimit
          /\ kept \subseteq SeqToSet(entriesBefore)
          /\ \A k \in kept, d \in SeqToSet(before) \ kept : IsConfig(k) \/ ~IsConfig(d)
          /\ \A i, j \in DOMAIN before :
               (i < j /\ IsConfig(before[i]) = IsConfig(before[j]) /\ before[j] \in kept)
                 => before[i] \in kept

----------------------------------------------------------------------------
(* Specifications                                                          *)

\* the cache component at rest
CacheParked ==
  /\ cache = <<>>
  /\ accessOrder = <<>>
  /\ maxSize = 1
  /\ now = 0
  /\ ret = [op |-> "new", key |-> 0, val |-> 0, removed |-> {}]
  /\ recency = <<>>

\* the pool manager at rest
PoolParked == PoolInit /\ scope.closes

\* the LightweightContext at rest
IndexParked == IndexInit

\* the FileWatcherService at rest
WatchParked == FileWatcherInit

\* the file cache of the LightweightContext at rest
ScanParked == ScanInit

\* no cache to search
SearchParked ==
  /\ cachedFiles = <<>>
  /\ query = <<>>
  /\ limit = 0
  /\ results = <<>>
  /\ searched = FALSE

\* no listener registered
ListenersParked == ListenersInit

\* an empty cache on which emergencyCleanup does not run
EmergencyParked ==
  /\ fileEntries = <<>>
  /\ entriesBefore = <<>>
  /\ cleanedUp = FALSE

\* a new cache; nothing else runs
SpecCacheInit ==
  CacheInit /\ PoolParked /\ IndexParked /\ WatchParked /\ ScanParked /\ SearchParked
    /\ ListenersParked /\ EmergencyParked

SpecCache == SpecCacheInit /\ [][CacheNext]_vars

\* a new pool manager; nothing else runs
SpecPoolInit ==
  PoolInit /\ CacheParked /\ IndexParked /\ WatchParked /\ ScanParked /\ SearchParked
    /\ ListenersParked /\ EmergencyParked

SpecPool == SpecPoolInit /\ [][PoolNext]_vars

\* a pool manager whose pool is full; nothing else runs
SpecFullPoolInit ==
  FullPoolInit /\ CacheParked /\ IndexParked /\ WatchParked /\ ScanParked /\ SearchParked
    /\ ListenersParked /\ EmergencyParked

SpecFullPool == SpecFullPoolInit /\ [][FullPoolNext]_vars

\* a new LightweightContext; nothing else runs
SpecIndexInit ==
  IndexInit /\ CacheParked /\ PoolParked /\ WatchParked /\ ScanParked /\ SearchParked
    /\ ListenersParked /\ EmergencyParked

SpecIndex == SpecIndexInit /\ [][IndexNext]_vars

\* a new FileWatcherService; nothing else runs
SpecWatchInit ==
  FileWatcherInit /\ CacheParked /\ PoolParked /\ IndexParked /\ ScanParked /\ SearchParked
    /\ ListenersParked /\ EmergencyParked

SpecWatch == SpecWatchInit /\ [][FileWatcherNext]_vars

\* a new FileWatcherService asked to watch more roots than maxWatchers
SpecWatchLimitInit ==
  FileWatcherInit /\ CacheParked /\ PoolParked /\ IndexParked /\ ScanParked /\ SearchParked
    /\ ListenersParked /\ EmergencyParked

SpecWatchLimit == SpecWatchLimitInit /\ [][WatchLimitNext]_vars

\* a new FileWatcherService that gets file events
SpecLiveInit ==
  FileWatcherInit /\ CacheParked /\ PoolParked /\ IndexParked /\ ScanParked /\ SearchParked
    /\ ListenersParked /\ EmergencyParked

SpecLive == SpecLiveInit /\ [][LiveNext]_vars

\* a new LightweightContext in a workspace, its scans and change notifications
SpecScanInit ==
  ScanInit /\ CacheParked /\ PoolParked /\ IndexParked /\ WatchParked /\ SearchParked
    /\ ListenersParked /\ EmergencyParked

SpecScan == SpecScanInit /\ [][ScanNext]_vars

\* searchFiles on a cache of a few records
SpecSearchInit ==
  SearchInit /\ CacheParked /\ PoolParked /\ IndexParked /\ WatchParked /\ ScanParked
    /\ ListenersParked /\ EmergencyParked

SpecSearch == SpecSearchInit /\ [][SearchNext]_vars

\* a new LightweightContext and its listeners; nothing else runs
SpecListenersInit ==
  ListenersInit /\ CacheParked /\ PoolParked /\ IndexParked /\ WatchParked /\ ScanParked
    /\ SearchParked /\ EmergencyParked

SpecListeners == SpecListenersInit /\ [][ListenersNext]_vars

\* emergencyCleanup on caches of a few records; nothing else runs
SpecEmergencyInit ==
  EmergencyInit /\ CacheParked /\ PoolParked /\ IndexParked /\ WatchParked /\ ScanParked
    /\ SearchParked /\ ListenersParked

SpecEmergency == SpecEmergencyInit /\ [][EmergencyNext]_vars

====
